---- MODULE Spec2Model ----
(***************************************************************************)
(* Model of the DDEX ERN 3.8.2 generator service.                          *)
(*                                                                         *)
(* A JavaScript string that the code inspects (split, parseInt,            *)
(* toLowerCase, includes, startsWith, trim) is a sequence of one-character *)
(* atoms; a string that is only copied into the document is a TLA+ string. *)
(* An optional value is a sequence of length at most one: <<>> stands for  *)
(* undefined/null, <<v>> for the value v.                                  *)
(***************************************************************************)
EXTENDS Integers, Sequences, FiniteSets, TLC

VARIABLES
    releaseData,    \* the ReleaseWithDetails argument of generateDdexXml
    pc,             \* position inside generateDdexXml
    clock,          \* the wall clock read by new Date()
    random,         \* the suffix drawn by Math.random()
    messageId,      \* const messageId
    sentDateTime,   \* const sentDateTime
    nodes,          \* the xmlbuilder2 document: its element nodes in creation order
    doc,            \* const doc (the node a builder variable denotes)
    resourceList,   \* const resourceList
    trackIndex,     \* index of the tracks.forEach iteration of the resource list
    result,         \* what generateDdexXml returned or threw
    duration,       \* argument of a direct call of convertToIsoDuration
    isoDuration,    \* its return value
    call,           \* a direct call of one of the other helper functions
    value,          \* its return value
    request,        \* the HTTP request the application is serving
    stage,          \* where the request is on its way through the application
    responses,      \* the responses sent for the request, in order
    database,       \* the rows of the database and the query that fails
    queries,        \* the queries sent to the database, in order
    fetched,        \* what getReleaseWithDetails has fetched so far and returns
    handlerCalls,   \* how often the route handler of POST /generate was entered
    generatorCalls  \* how often the handler called generateDdexXml

genVars == << releaseData, pc, clock, random, messageId, sentDateTime, nodes,
              doc, resourceList, trackIndex, result >>
durVars == << duration, isoDuration >>
callVars == << call, value >>
httpVars == << request, stage, responses, database, queries, fetched,
               handlerCalls, generatorCalls >>
vars == << releaseData, pc, clock, random, messageId, sentDateTime, nodes,
           doc, resourceList, trackIndex, result, duration, isoDuration,
           call, value, request, stage, responses, database, queries, fetched,
           handlerCalls, generatorCalls >>

\* no request is being served
NoRequest ==
    /\ request = << >>
    /\ stage = "idle"
    /\ responses = << >>
    /\ database = << >>
    /\ queries = << >>
    /\ fetched = << >>
    /\ handlerCalls = 0
    /\ generatorCalls = 0

----------------------------------------------------------------------------
(* Optional values and JavaScript truthiness.                              *)

None == << >>
Some(v) == << v >>
IsSome(o) == o # << >>
Get(o) == o[1]

\* !!x for an optional copied string: undefined, null and '' are falsy
Truthy(o) == IsSome(o) /\ Get(o) # ""
\* !!x for an optional inspected string (a sequence of characters)
TruthyChars(o) == IsSome(o) /\ Get(o) # << >>
\* !!x for an optional number: undefined, null and 0 are falsy
TruthyNum(o) == IsSome(o) /\ Get(o) # 0

----------------------------------------------------------------------------
(* JavaScript string and number primitives used by the generator.          *)

Digits == << "0", "1", "2", "3", "4", "5", "6", "7", "8", "9" >>
IsDigit(c) == \E i \in DOMAIN Digits : Digits[i] = c
DigitValue(c) == (CHOOSE i \in DOMAIN Digits : Digits[i] = c) - 1
IsWhiteSpace(c) == c \in {" ", "\t", "\n"}

LowerOf ==
    ("A" :> "a") @@ ("B" :> "b") @@ ("C" :> "c") @@ ("D" :> "d") @@ ("E" :> "e") @@ ("F" :> "f") @@
    ("G" :> "g") @@ ("H" :> "h") @@ ("I" :> "i") @@ ("J" :> "j") @@ ("K" :> "k") @@ ("L" :> "l") @@
    ("M" :> "m") @@ ("N" :> "n") @@ ("O" :> "o") @@ ("P" :> "p") @@ ("Q" :> "q") @@ ("R" :> "r") @@
    ("S" :> "s") @@ ("T" :> "t") @@ ("U" :> "u") @@ ("V" :> "v") @@ ("W" :> "w") @@ ("X" :> "x") @@
    ("Y" :> "y") @@ ("Z" :> "z")

UpperOf ==
    ("a" :> "A") @@ ("b" :> "B") @@ ("c" :> "C") @@ ("d" :> "D") @@ ("e" :> "E") @@ ("f" :> "F") @@
    ("g" :> "G") @@ ("h" :> "H") @@ ("i" :> "I") @@ ("j" :> "J") @@ ("k" :> "K") @@ ("l" :> "L") @@
    ("m" :> "M") @@ ("n" :> "N") @@ ("o" :> "O") @@ ("p" :> "P") @@ ("q" :> "Q") @@ ("r" :> "R") @@
    ("s" :> "S") @@ ("t" :> "T") @@ ("u" :> "U") @@ ("v" :> "V") @@ ("w" :> "W") @@ ("x" :> "X") @@
    ("y" :> "Y") @@ ("z" :> "Z")

ToLowerCaseChar(c) == IF c \in DOMAIN LowerOf THEN LowerOf[c] ELSE c
ToUpperCaseChar(c) == IF c \in DOMAIN UpperOf THEN UpperOf[c] ELSE c
\* String.prototype.toLowerCase / toUpperCase
toLowerCase(s) == [k \in DOMAIN s |-> ToLowerCaseChar(s[k])]
toUpperCase(s) == [k \in DOMAIN s |-> ToUpperCaseChar(s[k])]

\* String.prototype.startsWith
startsWith(s, prefix) ==
    /\ Len(s) >= Len(prefix)
    /\ SubSeq(s, 1, Len(prefix)) = prefix

\* String.prototype.includes
includes(s, sub) ==
    \E k \in 0..(Len(s) - Len(sub)) : SubSeq(s, k + 1, k + Len(sub)) = sub

\* String.prototype.split for a one-character separator
RECURSIVE split(_, _)
split(s, sep) ==
    IF \E k \in DOMAIN s : s[k] = sep
    THEN LET k == CHOOSE j \in DOMAIN s :
                      s[j] = sep /\ \A h \in 1..(j - 1) : s[h] # sep
         IN  << SubSeq(s, 1, k - 1) >> \o split(SubSeq(s, k + 1, Len(s)), sep)
    ELSE << s >>

\* String.prototype.trim
RECURSIVE trimStart(_)
trimStart(s) ==
    IF s # << >> /\ IsWhiteSpace(Head(s)) THEN trimStart(Tail(s)) ELSE s
RECURSIVE trimEnd(_)
trimEnd(s) ==
    IF s # << >> /\ IsWhiteSpace(s[Len(s)])
    THEN trimEnd(SubSeq(s, 1, Len(s) - 1)) ELSE s
trim(s) == trimEnd(trimStart(s))

\* A JavaScript number: an integer or NaN
NaN == [nan |-> TRUE, val |-> 0]
Num(n) == [nan |-> FALSE, val |-> n]

RECURSIVE DigitPrefix(_)
DigitPrefix(s) ==
    IF s # << >> /\ IsDigit(Head(s))
    THEN << Head(s) >> \o DigitPrefix(Tail(s)) ELSE << >>
RECURSIVE DecimalValue(_)
DecimalValue(ds) ==
    IF ds = << >> THEN 0
    ELSE 10 * DecimalValue(SubSeq(ds, 1, Len(ds) - 1)) + DigitValue(ds[Len(ds)])

\* parseInt(s, 10): leading white space, an optional sign, then the longest
\* run of digits; NaN when there is no digit
parseInt(s) ==
    LET t == trimStart(s)
        signed == t # << >> /\ Head(t) \in {"+", "-"}
        ds == DigitPrefix(IF signed THEN Tail(t) ELSE t)
    IN  IF ds = << >> THEN NaN
        ELSE IF signed /\ Head(t) = "-" THEN Num(0 - DecimalValue(ds))
        ELSE Num(DecimalValue(ds))

RECURSIVE NatToString(_)
NatToString(n) ==
    IF n < 10 THEN << Digits[n + 1] >>
    ELSE NatToString(n \div 10) \o << Digits[(n % 10) + 1] >>
\* Number.prototype.toString and the `${n}` of a template literal
NumberToString(x) ==
    IF x.nan THEN << "N", "a", "N" >>
    ELSE IF x.val < 0 THEN << "-" >> \o NatToString(0 - x.val)
    ELSE NatToString(x.val)

\* The text of an inspected string as it is written into the document
RECURSIVE Str(_)
Str(s) == IF s = << >> THEN "" ELSE Head(s) \o Str(Tail(s))

----------------------------------------------------------------------------
(* types/ddex: the vocabulary tables, in source order.                     *)

ROLE_TO_DDEX_MAP ==
    << << <<"A", "r", "t", "i", "s", "t", "a">>, "MainArtist" >>,
       << <<"C", "o", "m", "p", "o", "s", "i", "t", "o", "r">>, "Composer" >>,
       << <<"P", "r", "o", "d", "u", "c", "t", "o", "r">>, "Producer" >>,
       << <<"M", "e", "z", "c", "l", "a", "d", "o", "r">>, "MixingEngineer" >>,
       << <<"A", "r", "r", "e", "g", "l", "i", "s", "t", "a">>, "Arranger" >>,
       << <<"I", "n", "g", "e", "n", "i", "e", "r", "o", " ", "d", "e", " ", "s", "o", "n", "i", "d", "o">>, "Engineer" >>,
       << <<"D", "i", "r", "e", "c", "t", "o", "r", " ", "d", "e", " ", "m", "U+00FA", "s", "i", "c", "a">>, "MusicDirector" >>,
       << <<"I", "n", "g", "e", "n", "i", "e", "r", "o", " ", "M", "a", "e", "s", "t", "r", "o">>, "MasteringEngineer" >>,
       << <<"C", "o", "r", "o">>, "Choir" >>,
       << <<"O", "r", "q", "u", "e", "s", "t", "a">>, "Orchestra" >>,
       << <<"S", "o", "l", "i", "s", "t", "a">>, "Soloist" >>,
       << <<"D", "i", "r", "e", "c", "t", "o", "r", " ", "d", "e", " ", "v", "i", "d", "e", "o">>, "VideoDirector" >>,
       << <<"P", "r", "o", "d", "u", "c", "t", "o", "r", " ", "d", "e", " ", "v", "i", "d", "e", "o">>, "VideoProducer" >>,
       << <<"L", "i", "r", "i", "c", "i", "s", "t", "a">>, "Lyricist" >>,
       << <<"E", "d", "i", "t", "o", "r">>, "Editor" >>,
       << <<"a", "r", "t", "i", "s", "t">>, "MainArtist" >>,
       << <<"A", "r", "t", "i", "s", "t">>, "MainArtist" >>,
       << <<"C", "o", "m", "p", "o", "s", "e", "r">>, "Composer" >>,
       << <<"P", "r", "o", "d", "u", "c", "e", "r">>, "Producer" >>,
       << <<"F", "e", "a", "t", "u", "r", "i", "n", "g">>, "FeaturedArtist" >>,
       << <<"F", "e", "a", "t", "u", "r", "e", "d">>, "FeaturedArtist" >>,
       << <<"P", "r", "i", "m", "a", "r", "y">>, "MainArtist" >>,
       << <<"R", "e", "m", "i", "x", "e", "r">>, "Remixer" >>,
       << <<"D", "J">>, "DJ" >>,
       << <<"L", "y", "r", "i", "c", "i", "s", "t">>, "Lyricist" >>,
       << <<"M", "i", "x", "e", "r">>, "Mixer" >>,
       << <<"E", "n", "g", "i", "n", "e", "e", "r">>, "Engineer" >>,
       << <<"A", "r", "r", "a", "n", "g", "e", "r">>, "Arranger" >>,
       << <<"a", "d", "m", "i", "n">>, "Producer" >>,
       << <<"P", "a", "r", "t", "i", "c", "i", "p", "a", "n", "t", "e">>, "Contributor" >>,
       << <<"S", "e", "l", "l", "o", " ", "D", "i", "s", "c", "o", "g", "r", "U+00E1", "f", "i", "c", "o">>, "RecordLabel" >>,
       << <<"A", "r", "t", "i", "s", "t", "a", " ", "I", "n", "v", "i", "t", "a", "d", "o">>, "FeaturedArtist" >>,
       << <<"O", "t", "r", "o">>, "Contributor" >> >>

EXPLICIT_STATUS_MAP ==
    << << <<"e", "x", "p", "l", "i", "c", "i", "t">>, "Explicit" >>,
       << <<"c", "l", "e", "a", "n">>, "NotExplicit" >>,
       << <<"e", "d", "i", "t", "e", "d">>, "Edited" >>,
       << <<>>, "Unknown" >> >>

MIX_VERSION_MAP ==
    << << <<"r", "e", "m", "i", "x">>, "Remix" >>,
       << <<"a", "c", "o", "u", "s", "t", "i", "c">>, "Acoustic" >>,
       << <<"l", "i", "v", "e">>, "Live" >>,
       << <<"i", "n", "s", "t", "r", "u", "m", "e", "n", "t", "a", "l">>, "Instrumental" >>,
       << <<"a", "c", "a", "p", "e", "l", "l", "a">>, "Acapella" >>,
       << <<"e", "x", "t", "e", "n", "d", "e", "d">>, "Extended" >>,
       << <<"r", "a", "d", "i", "o">>, "RadioEdit" >>,
       << <<"d", "e", "m", "o">>, "Demo" >> >>

\* the names every object literal inherits from Object.prototype
OBJECT_PROTOTYPE_KEYS ==
    { << "c", "o", "n", "s", "t", "r", "u", "c", "t", "o", "r" >>,
      << "t", "o", "S", "t", "r", "i", "n", "g" >>,
      << "v", "a", "l", "u", "e", "O", "f" >>,
      << "h", "a", "s", "O", "w", "n", "P", "r", "o", "p", "e", "r", "t", "y" >>,
      << "i", "s", "P", "r", "o", "t", "o", "t", "y", "p", "e", "O", "f" >>,
      << "p", "r", "o", "p", "e", "r", "t", "y", "I", "s", "E", "n", "u", "m", "e", "r", "a", "b", "l", "e" >>,
      << "t", "o", "L", "o", "c", "a", "l", "e", "S", "t", "r", "i", "n", "g" >>,
      << "_", "_", "p", "r", "o", "t", "o", "_", "_" >>,
      << "_", "_", "d", "e", "f", "i", "n", "e", "G", "e", "t", "t", "e", "r", "_", "_" >>,
      << "_", "_", "d", "e", "f", "i", "n", "e", "S", "e", "t", "t", "e", "r", "_", "_" >>,
      << "_", "_", "l", "o", "o", "k", "u", "p", "G", "e", "t", "t", "e", "r", "_", "_" >>,
      << "_", "_", "l", "o", "o", "k", "u", "p", "S", "e", "t", "t", "e", "r", "_", "_" >> }
\* what such a name denotes: a function or an object, which is truthy and is
\* no string
InheritedMember == "[Object.prototype member]"

\* a variant that reads own keys only
LookupOwn(table, key) ==
    IF \E k \in DOMAIN table : table[k][1] = key
    THEN Some(table[CHOOSE k \in DOMAIN table : table[k][1] = key][2])
    ELSE None

\* table[key] of a JavaScript object literal used as a dictionary: its own
\* key, else the member inherited under that name, else undefined
HasKey(table, key) == \E k \in DOMAIN table : table[k][1] = key
Lookup(table, key) ==
    IF HasKey(table, key)
    THEN Some(table[CHOOSE k \in DOMAIN table : table[k][1] = key][2])
    ELSE IF key \in OBJECT_PROTOTYPE_KEYS THEN Some(InheritedMember)
    ELSE None

----------------------------------------------------------------------------
(* services/ddexGenerator: the helper functions.                           *)

\* formatDate, for a string argument
formatDate(date) == split(date, "T")[1]

\* a variant that reads a two-part input as hours:minutes
convertToIsoDurationHoursMinutes(d) ==
    IF startsWith(d, << "P", "T" >>) THEN d
    ELSE LET raw == split(d, ":")
             parts == [k \in DOMAIN raw |-> parseInt(raw[k])]
         IN  IF Len(parts) = 2
             THEN << "P", "T" >> \o NumberToString(parts[1]) \o << "H" >>
                      \o NumberToString(parts[2]) \o << "M" >>
             ELSE IF Len(parts) = 3
             THEN << "P", "T" >> \o NumberToString(parts[1]) \o << "H" >>
                      \o NumberToString(parts[2]) \o << "M" >>
                      \o NumberToString(parts[3]) \o << "S" >>
             ELSE << "P", "T", "0", "S" >>

\* lines 32-56; hours > 0 is false for NaN
convertToIsoDuration(d) ==
    IF startsWith(d, << "P", "T" >>) THEN d
    ELSE LET raw == split(d, ":")
             parts == [k \in DOMAIN raw |-> parseInt(raw[k])]
         IN  IF Len(parts) = 2
             THEN << "P", "T" >> \o NumberToString(parts[1]) \o << "M" >>
                      \o NumberToString(parts[2]) \o << "S" >>
             ELSE IF Len(parts) = 3
             THEN IF ~parts[1].nan /\ parts[1].val > 0
                  THEN << "P", "T" >> \o NumberToString(parts[1]) \o << "H" >>
                           \o NumberToString(parts[2]) \o << "M" >>
                           \o NumberToString(parts[3]) \o << "S" >>
                  ELSE << "P", "T" >> \o NumberToString(parts[2]) \o << "M" >>
                           \o NumberToString(parts[3]) \o << "S" >>
             ELSE << "P", "T", "0", "S" >>

mapRoleToDdex(roleName) ==
    IF Truthy(Lookup(ROLE_TO_DDEX_MAP, roleName))
    THEN Get(Lookup(ROLE_TO_DDEX_MAP, roleName))
    ELSE "Contributor"

\* returns an optional string: None is null
mapExplicitStatus(status) ==
    IF ~TruthyChars(status) THEN None
    ELSE LET v == Lookup(EXPLICIT_STATUS_MAP, toLowerCase(Get(status)))
         IN  IF Truthy(v) THEN v ELSE None

\* a variant that returns the type of the last keyword found
mapMixVersionLastKeyword(mixVersion) ==
    IF ~TruthyChars(mixVersion) THEN None
    ELSE LET lowerVersion == toLowerCase(Get(mixVersion))
             hits == {k \in DOMAIN MIX_VERSION_MAP :
                          includes(lowerVersion, MIX_VERSION_MAP[k][1])}
         IN  IF hits = {} THEN None
             ELSE Some(MIX_VERSION_MAP[CHOOSE k \in hits :
                                           \A h \in hits : k >= h][2])

\* lines 76-85; Object.entries lists the keys in the order of the literal.
\* Returns an optional string: None is null
mapMixVersion(mixVersion) ==
    IF ~TruthyChars(mixVersion) THEN None
    ELSE LET lowerVersion == toLowerCase(Get(mixVersion))
             hits == {k \in DOMAIN MIX_VERSION_MAP :
                          includes(lowerVersion, MIX_VERSION_MAP[k][1])}
         IN  IF hits = {} THEN None
             ELSE Some(MIX_VERSION_MAP[CHOOSE k \in hits :
                                           \A h \in hits : k <= h][2])

\* a variant that prefers the legal name to the stage name
getArtistNameLegalFirst(artist) ==
    IF Truthy(artist.artist_name) THEN Get(artist.artist_name)
    ELSE IF Truthy(artist.stage_name) THEN Get(artist.stage_name)
    ELSE IF Truthy(artist.name) THEN Get(artist.name)
    ELSE "Unknown Artist"

\* lines 90-92
getArtistName(artist) ==
    IF Truthy(artist.stage_name) THEN Get(artist.stage_name)
    ELSE IF Truthy(artist.artist_name) THEN Get(artist.artist_name)
    ELSE IF Truthy(artist.name) THEN Get(artist.name)
    ELSE "Unknown Artist"

getReleaseArtistName(release) ==
    IF Truthy(release.stage_name) THEN Get(release.stage_name)
    ELSE IF Truthy(release.artist_name) THEN Get(release.artist_name)
    ELSE IF Truthy(release.user_name) THEN Get(release.user_name)
    ELSE "Unknown Artist"

getLabelName(release) ==
    IF Truthy(release.label_name) THEN Get(release.label_name)
    ELSE IF Truthy(release.record_label) THEN Get(release.record_label)
    ELSE "Independent Label"

\* a.role_name || ''
RoleNameOrEmpty(a) == IF TruthyChars(a.role_name) THEN Get(a.role_name) ELSE << >>

\* Array.prototype.filter is SelectSeq
getArtistsByRole(artists, roleName) ==
    LET Keep(a) == mapRoleToDdex(RoleNameOrEmpty(a)) = roleName
    IN  SelectSeq(artists, Keep)

\* a variant that falls back to every credit of the track
getPrimaryArtistsOrAllCredits(artists) ==
    LET mainArtists == getArtistsByRole(artists, "MainArtist")
    IN  IF Len(mainArtists) > 0 THEN mainArtists ELSE artists

getPrimaryArtists(artists) ==
    LET mainArtists == getArtistsByRole(artists, "MainArtist")
        Keep(a) == /\ TruthyChars(a.role_name)
                   /\ includes(toLowerCase(Get(a.role_name)),
                               << "a", "r", "t", "i", "s", "t" >>)
    IN  IF Len(mainArtists) > 0 THEN mainArtists ELSE SelectSeq(artists, Keep)

----------------------------------------------------------------------------
(* xmlbuilder2.  The document is the sequence of its element nodes in      *)
(* creation order; node 0 is the document itself and the parent of the     *)
(* root element.  A builder is the document and the node it stands on.     *)

Node(name, parent, attrs) ==
    [tag |-> name, parent |-> parent, attrs |-> attrs, text |-> None]
Builder(ns, cur) == [nodes |-> ns, cur |-> cur]

\* ele(name, attrs): appends a child element and returns a builder on the child
ele(b, name, attrs) ==
    Builder(Append(b.nodes, Node(name, b.cur, attrs)), Len(b.nodes) + 1)
\* txt(content): appends a text node and returns the same builder; a null or
\* undefined content is skipped
txt(b, content) ==
    IF IsSome(content) THEN [b EXCEPT !.nodes[b.cur].text = content] ELSE b
\* up(): returns a builder on the parent node
up(b) == [b EXCEPT !.cur = b.nodes[b.cur].parent]

\* One call of a method chain
E(name) == [op |-> "ele", name |-> name, attrs |-> {}, content |-> None]
EA(name, attrs) == [op |-> "ele", name |-> name, attrs |-> attrs, content |-> None]
T(content) == [op |-> "txt", name |-> "", attrs |-> {}, content |-> content]
U == [op |-> "up", name |-> "", attrs |-> {}, content |-> None]
Lit(s) == Some(s)

Call(b, c) ==
    CASE c.op = "ele" -> ele(b, c.name, c.attrs)
      [] c.op = "txt" -> txt(b, c.content)
      [] c.op = "up"  -> up(b)

\* b.m1(..).m2(..)...: each method is called on the builder the previous
\* returned, which stands on a node of the document (0 is the document itself)
RECURSIVE Chain(_, _)
Chain(b, calls) ==
    IF b.cur \notin 0..Len(b.nodes) \/ calls = << >> THEN b
    ELSE Chain(Call(b, Head(calls)), Tail(calls))

\* A statement `v.m1(..).m2(..)...;` whose value is dropped: the chain starts
\* at the node the variable v denotes, whatever the earlier statements returned
At(v, calls) == [at |-> v, calls |-> calls]
\* the statements one after the other, each on the document the previous one
\* left; there is no node to stand on in a document without elements
RECURSIVE Run(_, _)
Run(ns, stmts) ==
    IF Len(ns) = 0 \/ stmts = << >> THEN ns
    ELSE Run(Chain(Builder(ns, Head(stmts).at), Head(stmts).calls).nodes,
             Tail(stmts))

\* if (cond) { stmts }
When(cond, stmts) == IF cond THEN stmts ELSE << >>

----------------------------------------------------------------------------
(* services/ddexGenerator: generateMessageId and the clock.                *)

MillisPerSecond == 1000

RECURSIVE Pad(_, _)
Pad(n, width) ==
    IF width = 0 THEN << >>
    ELSE Pad(n \div 10, width - 1) \o << Digits[(n % 10) + 1] >>

\* Date.prototype.toISOString for a clock counted in milliseconds within
\* one minute: YYYY-MM-DDTHH:mm:ss.sssZ
toISOString(ms) ==
    << "2", "0", "2", "4", "-", "0", "1", "-", "1", "5", "T",
       "1", "0", ":", "3", "0", ":" >>
        \o Pad((ms \div MillisPerSecond) % 60, 2) \o << "." >>
        \o Pad(ms % MillisPerSecond, 3) \o << "Z" >>

\* a variant that puts the random part before the time
generateMessageIdRandomFirst(now, rnd) ==
    LET NotDashColon(c) == c \notin {"-", ":"}
        timestamp == split(SelectSeq(toISOString(now), NotDashColon), ".")[1]
    IN  << "D", "D", "E", "X" >> \o toUpperCase(rnd) \o timestamp

\* now is the clock at new Date(); rnd is Math.random().toString(36).substring(2, 8)
generateMessageId(now, rnd) ==
    LET NotDashColon(c) == c \notin {"-", ":"}
        timestamp == split(SelectSeq(toISOString(now), NotDashColon), ".")[1]
    IN  << "D", "D", "E", "X" >> \o timestamp \o toUpperCase(rnd)

----------------------------------------------------------------------------
(* services/ddexGenerator: generateDdexXml, section by section.            *)

\* a || b for optional copied strings
Or(a, b) == IF Truthy(a) THEN a ELSE b
\* `${x}` of a template literal for an optional copied string
Template(o) == IF IsSome(o) THEN Get(o) ELSE "undefined"
\* `A${track.id}`
ResourceRef(track) == "A" \o ToString(track.id)
\* `R${release.id}`
ReleaseRef(release) == "R" \o ToString(release.id)

\* release.xline_year || parseInt(release.date.split('-')[0], 10)
YearOrReleaseYear(year, date) ==
    IF TruthyNum(year) THEN Num(Get(year))
    ELSE parseInt(split(Get(date), "-")[1])

\* the chain of lines 139-165, whose value is assigned to doc
HeaderCalls(mid, sent, labelName) ==
    << EA("ern:NewReleaseMessage",
          { << "xmlns:ern", "http://ddex.net/xml/ern/38" >>,
            << "xmlns:xs", "http://www.w3.org/2001/XMLSchema-instance" >>,
            << "MessageSchemaVersionId", "ern/382" >>,
            << "LanguageAndScriptCode", "en" >> }),
       E("MessageHeader"),
       E("MessageThreadId"), T(Lit(mid)), U,
       E("MessageId"), T(Lit(mid)), U,
       E("MessageCreatedDateTime"), T(Lit(sent)), U,
       E("MessageSender"),
       E("PartyId"), T(Lit("DPID:PADPIDA2014071501Y")), U,
       E("PartyName"),
       E("FullName"), T(Lit(labelName)), U,
       U,
       U,
       E("MessageRecipient"),
       E("PartyId"), T(Lit("DPID:PADPIDA2013011301U")), U,
       E("PartyName"),
       E("FullName"), T(Lit("Digital Service Provider")), U,
       U,
       U >>

\* lines 167-172, run on doc
HeaderTail(d, release) ==
    When(Truthy(release.catalog),
         << At(d, << E("MessageControlType"), T(Lit("TestMessage")), U >>) >>)
    \o << At(d, << U >>) >>

\* one DisplayArtist of a sound recording or of the release
DisplayArtist(at, fullName, role) ==
    At(at, << E("DisplayArtist"),
              E("PartyName"),
              E("FullName"), T(Lit(fullName)), U,
              U,
              E("ArtistRole"), T(Lit(role)), U,
              U >>)

Contributor(at, artist) ==
    At(at, << E("Contributor"),
              E("PartyName"),
              E("FullName"), T(Lit(getArtistName(artist))), U,
              U,
              E("Role"), T(Lit(mapRoleToDdex(RoleNameOrEmpty(artist)))), U,
              U >>)

\* a variant that leaves out the credits mapped to MainArtist
ContributorsWithoutMainArtists(sr, contributors) ==
    LET Other(a) == mapRoleToDdex(RoleNameOrEmpty(a)) # "MainArtist"
        others == SelectSeq(contributors, Other)
    IN  [k \in DOMAIN others |-> Contributor(sr, others[k])]

\* lines 229-238: contributors.forEach
Contributors(sr, contributors) ==
    [k \in DOMAIN contributors |-> Contributor(sr, contributors[k])]

\* lines 208-227
DisplayArtists(sr, primaryArtists, releaseArtistName) ==
    IF Len(primaryArtists) > 0
    THEN [k \in DOMAIN primaryArtists |->
             DisplayArtist(sr, getArtistName(primaryArtists[k]),
                           mapRoleToDdex(RoleNameOrEmpty(primaryArtists[k])))]
    ELSE << DisplayArtist(sr, releaseArtistName, "MainArtist") >>

\* track.audio_style?.toUpperCase() || 'MP3'
AudioCodec(track) ==
    IF TruthyChars(track.audio_style)
    THEN Str(toUpperCase(Get(track.audio_style))) ELSE "MP3"

\* a variant that calls track.audio_style.toUpperCase() without the ?.
SoundRecordingThrowsOnAudioStyle(release, track) ==
    \/ ~TruthyNum(release.pline_year) /\ ~IsSome(release.date)
    \/ ~IsSome(track.sound_length)
    \/ ~IsSome(track.audio_style)

\* the TypeError of reading a property of undefined inside one iteration of
\* lines 180-304: release.date.split when release.pline_year is falsy (253),
\* duration.startsWith (274, 34)
SoundRecordingThrows(release, track) ==
    \/ ~TruthyNum(release.pline_year) /\ ~IsSome(release.date)
    \/ ~IsSome(track.sound_length)

\* lines 185-286, run on soundRecording
SoundRecordingBody(sr, release, track, releaseArtistName) ==
    LET trackArtists == IF IsSome(track.artists) THEN Get(track.artists) ELSE << >>
        primaryArtists == getPrimaryArtists(trackArtists)
        contributors == trackArtists
        versionType == mapMixVersion(track.mix_version)
        parentalWarning == mapExplicitStatus(track.explicit_status)
        plineText == Or(release.label_pline, release.pline)
        plineYear == YearOrReleaseYear(release.pline_year, release.date)
        dur == convertToIsoDuration(Get(track.sound_length))
    IN  << At(sr, << E("ResourceReference"), T(Lit(ResourceRef(track))), U >>),
           At(sr, << E("Type"), T(Lit("MusicalWorkSoundRecording")), U >>),
           At(sr, << E("ResourceId"), E("ISRC"), T(track.isrc), U, U >>),
           At(sr, << E("DisplayTitleText"), T(track.song_name), U >>) >>
        \o When(Truthy(versionType) /\ TruthyChars(track.mix_version),
             << At(sr, << E("DisplayTitle"),
                          E("TitleText"),
                          T(Lit(Template(track.song_name) \o " ("
                                  \o Str(Get(track.mix_version)) \o ")")), U,
                          E("SubTitle"), T(Lit(Str(Get(track.mix_version)))), U,
                          U >>) >>)
        \o DisplayArtists(sr, primaryArtists, releaseArtistName)
        \o Contributors(sr, contributors)
        \o When(Truthy(track.song_language_code),
             << At(sr, << E("LanguageOfPerformance"),
                          T(track.song_language_code), U >>) >>)
        \o When(Truthy(parentalWarning),
             << At(sr, << E("ParentalWarningType"), T(parentalWarning), U >>) >>)
        \o When(Truthy(plineText),
             << At(sr, << E("PLine"),
                          E("Year"), T(Lit(Str(NumberToString(plineYear)))), U,
                          E("PLineText"), T(plineText), U,
                          U >>) >>)
        \o When(Truthy(track.main_genre_en),
             << At(sr, << E("Genre"),
                          E("GenreText"), T(track.main_genre_en), U,
                          U >>) >>)
        \o When(Truthy(track.secondary_genre_en),
             << At(sr, << E("Genre"),
                          E("GenreText"), T(track.secondary_genre_en), U,
                          U >>) >>)
        \o << At(sr, << E("Duration"), T(Lit(Str(dur))), U >>) >>
        \o When(TruthyNum(track.has_lyrics),
             << At(sr, << E("ContainsLyrics"), T(Lit("true")), U >>) >>
             \o When(Truthy(track.lyrics_language_code),
                  << At(sr, << E("LanguageOfLyrics"),
                               T(track.lyrics_language_code), U >>) >>))

\* lines 288-303, run on technicalDetails and soundRecording
TechnicalDetailsBody(td, sr, track) ==
    << At(td, << E("TechnicalResourceDetailsReference"),
                 T(Lit("T" \o ToString(track.id))), U >>),
       At(td, << E("AudioCodecType"), T(Lit(AudioCodec(track))), U >>) >>
    \o When(Truthy(track.sound_url),
         << At(td, << E("File"), E("URI"), T(track.sound_url), U, U >>) >>)
    \o << At(td, << U >>), At(sr, << U >>) >>

\* one iteration of tracks.forEach (lines 180-304): the document afterwards
SoundRecording(ns, rl, release, track, releaseArtistName) ==
    LET sr == Chain(Builder(ns, rl), << E("SoundRecording") >>)
        body == Run(sr.nodes,
                    SoundRecordingBody(sr.cur, release, track, releaseArtistName))
        td == Chain(Builder(body, sr.cur),
                    << E("TechnicalSoundRecordingDetails") >>)
    IN  Run(td.nodes, TechnicalDetailsBody(td.cur, sr.cur, track))

\* release.label?.release_front_art_dimensions
FrontArtDimensions(release) ==
    IF IsSome(release.label)
    THEN Get(release.label).release_front_art_dimensions ELSE None

\* lines 319-329, run on imageTechnical
ImageDimensions(it, release) ==
    IF TruthyChars(FrontArtDimensions(release))
    THEN LET dimensions == split(Get(FrontArtDimensions(release)), "x")
         IN  When(Len(dimensions) = 2,
                << At(it, << E("ImageHeight"),
                             T(Lit(Str(trim(dimensions[2])))), U >>),
                   At(it, << E("ImageWidth"),
                             T(Lit(Str(trim(dimensions[1])))), U >>) >>)
    ELSE << At(it, << E("ImageHeight"), T(Lit("3000")), U >>),
            At(it, << E("ImageWidth"), T(Lit("3000")), U >>) >>

\* lines 306-339: the document after the cover image and resourceList.up()
Image(ns, rl, release) ==
    IF Truthy(release.front_pic)
    THEN LET image == Chain(Builder(ns, rl), << E("Image") >>)
             head == Run(image.nodes,
                      << At(image.cur, << E("ResourceReference"), T(Lit("R1")), U >>),
                         At(image.cur, << E("Type"), T(Lit("FrontCoverImage")), U >>),
                         At(image.cur, << E("ResourceId"),
                                          E("ProprietaryId"),
                                          T(Lit("IMG" \o ToString(release.id))), U,
                                          U >>) >>)
             it == Chain(Builder(head, image.cur), << E("TechnicalImageDetails") >>)
         IN  Run(it.nodes,
                 << At(it.cur, << E("TechnicalResourceDetailsReference"),
                                  T(Lit("T_IMG1")), U >>),
                    At(it.cur, << E("ImageCodecType"), T(Lit("JPEG")), U >>) >>
                 \o ImageDimensions(it.cur, release)
                 \o << At(it.cur, << E("File"), E("URI"), T(release.front_pic), U, U >>),
                       At(it.cur, << U >>),
                       At(image.cur, << U >>),
                       At(rl, << U >>) >>)
    ELSE Run(ns, << At(rl, << U >>) >>)

\* the TypeError of an undefined release.date: release.date.split (396, 405)
\* or, with both years set, date.toISOString inside formatDate (428, 26)
ReleaseListThrows(release) == ~IsSome(release.date)

\* release.release_type_name || 'Album', with 'Sencillo' translated
DdexReleaseType(release) ==
    LET releaseType == IF Truthy(release.release_type_name)
                       THEN Get(release.release_type_name) ELSE "Album"
    IN  IF releaseType = "Sencillo" THEN "Single" ELSE releaseType

\* a variant that lists the cover image before the tracks
ResourceReferencesCoverFirst(rel, release, tracks) ==
    When(Truthy(release.front_pic),
         << At(rel, << E("ResourceReference"), T(Lit("R1")), U >>) >>)
    \o [k \in DOMAIN tracks |->
           At(rel, << E("ResourceReference"), T(Lit(ResourceRef(tracks[k]))), U >>)]

\* lines 430-437, run on releaseList
ResourceReferences(rel, release, tracks) ==
    [k \in DOMAIN tracks |->
        At(rel, << E("ResourceReference"), T(Lit(ResourceRef(tracks[k]))), U >>)]
    \o When(Truthy(release.front_pic),
         << At(rel, << E("ResourceReference"), T(Lit("R1")), U >>) >>)

\* a variant that adds the alternative title whenever there is one
ReleaseTitlesAlternativeAlways(rel, release) ==
    LET mainTitle == Or(release.version_title, release.alt_title)
    IN  When(Truthy(mainTitle),
             << At(rel, << E("DisplayTitleText"), T(mainTitle), U >>) >>)
        \o When(Truthy(release.alt_title),
             << At(rel, << E("DisplayTitle"),
                           E("TitleText"), T(release.alt_title), U,
                           E("TitleType"), T(Lit("AlternativeTitle")), U,
                           U >>) >>)

\* lines 365-377, run on releaseList
ReleaseTitles(rel, release) ==
    LET mainTitle == Or(release.version_title, release.alt_title)
    IN  When(Truthy(mainTitle),
             << At(rel, << E("DisplayTitleText"), T(mainTitle), U >>) >>)
        \o When(Truthy(release.alt_title) /\ release.alt_title # mainTitle,
             << At(rel, << E("DisplayTitle"),
                           E("TitleText"), T(release.alt_title), U,
                           E("TitleType"), T(Lit("AlternativeTitle")), U,
                           U >>) >>)

\* a variant that takes the genres of the first track that has a main genre
ReleaseGenresFirstFound(rel, tracks) ==
    LET WithGenre(t) == Truthy(t.main_genre_en)
        found == SelectSeq(tracks, WithGenre)
    IN  When(Len(found) > 0,
             << At(rel, << E("Genre"),
                           E("GenreText"), T(found[1].main_genre_en), U,
                           U >>) >>
             \o When(Truthy(found[1].secondary_genre_en),
                  << At(rel, << E("Genre"),
                                E("GenreText"), T(found[1].secondary_genre_en), U,
                                U >>) >>))

\* lines 414-425, run on releaseList
ReleaseGenres(rel, tracks) ==
    When(Len(tracks) > 0 /\ Truthy(tracks[1].main_genre_en),
         << At(rel, << E("Genre"),
                       E("GenreText"), T(tracks[1].main_genre_en), U,
                       U >>) >>
         \o When(Truthy(tracks[1].secondary_genre_en),
              << At(rel, << E("Genre"),
                            E("GenreText"), T(tracks[1].secondary_genre_en), U,
                            U >>) >>))

\* lines 346-439, run on releaseList (the Release element)
ReleaseBody(rel, release, tracks, labelName, releaseArtistName) ==
    LET clineText == Or(release.label_cline, release.cline)
        clineYear == YearOrReleaseYear(release.cline_year, release.date)
        plineText == Or(release.label_pline, release.pline)
        plineYear == YearOrReleaseYear(release.pline_year, release.date)
    IN  << At(rel, << E("ReleaseReference"), T(Lit(ReleaseRef(release))), U >>),
           At(rel, << E("ReleaseType"), T(Lit(DdexReleaseType(release))), U >>),
           At(rel, << E("ReleaseId"), E("ICPN"), T(release.upc), U, U >>) >>
        \o When(Truthy(release.catalog),
             << At(rel, << E("ReleaseId"),
                           E("CatalogNumber"), T(release.catalog), U,
                           U >>) >>)
        \o ReleaseTitles(rel, release)
        \o << DisplayArtist(rel, releaseArtistName, "MainArtist"),
              At(rel, << E("AdministratingRecordCompany"),
                         E("PartyName"),
                         E("FullName"), T(Lit(labelName)), U,
                         U,
                         U >>) >>
        \o When(Truthy(clineText),
             << At(rel, << E("CLine"),
                           E("Year"), T(Lit(Str(NumberToString(clineYear)))), U,
                           E("CLineText"), T(clineText), U,
                           U >>) >>)
        \o When(Truthy(plineText),
             << At(rel, << E("PLine"),
                           E("Year"), T(Lit(Str(NumberToString(plineYear)))), U,
                           E("PLineText"), T(plineText), U,
                           U >>) >>)
        \o ReleaseGenres(rel, tracks)
        \o << At(rel, << E("ReleaseDate"),
                         T(Lit(Str(formatDate(Get(release.date))))), U >>) >>
        \o ResourceReferences(rel, release, tracks)
        \o << At(rel, << U, U >>) >>

\* lines 344-439: the document after the release list
ReleaseList(ns, d, release, tracks, labelName, releaseArtistName) ==
    LET releaseList == Chain(Builder(ns, d), << E("ReleaseList"), E("Release") >>)
    IN  Run(releaseList.nodes,
            ReleaseBody(releaseList.cur, release, tracks, labelName,
                        releaseArtistName))

\* one Deal stanza of lines 447-508; price is the optional PriceInformation
Deal(dl, model, useType, startDate, price) ==
    At(dl, << E("Deal"),
              E("DealTerms"),
              E("CommercialModelType"), T(Lit(model)), U,
              E("UseType"), T(Lit(useType)), U,
              E("TerritoryCode"), T(Lit("Worldwide")), U,
              E("ValidityPeriod"),
              E("StartDate"), T(Lit(startDate)), U,
              U >>
           \o When(IsSome(price),
                << E("PriceInformation"),
                   E("BulkOrderWholesalePricePerUnit"), T(price), U,
                   U >>)
           \o << U, U >>)

\* a variant without the UserMadeClip deal
DealListWithoutUserMadeClip(ns, d, release) ==
    LET dealList == Chain(Builder(ns, d), << E("DealList"), E("ReleaseDeal") >>)
        dl == dealList.cur
        start == Str(formatDate(Get(release.date)))
    IN  Run(dealList.nodes,
            << At(dl, << E("DealReleaseReference"), T(Lit(ReleaseRef(release))), U >>),
               Deal(dl, "SubscriptionModel", "OnDemandStream", start, None),
               Deal(dl, "PayAsYouGoModel", "PermanentDownload", start, Lit("0.99")),
               Deal(dl, "AdvertisementSupportedModel", "OnDemandStream", start, None),
               Deal(dl, "SubscriptionModel", "ConditionalDownload", start, None),
               At(dl, << U, U >>) >>)

\* lines 444-510: the document after the deal list
DealList(ns, d, release) ==
    LET dealList == Chain(Builder(ns, d), << E("DealList"), E("ReleaseDeal") >>)
        dl == dealList.cur
        start == Str(formatDate(Get(release.date)))
    IN  Run(dealList.nodes,
            << At(dl, << E("DealReleaseReference"), T(Lit(ReleaseRef(release))), U >>),
               Deal(dl, "SubscriptionModel", "OnDemandStream", start, None),
               Deal(dl, "PayAsYouGoModel", "PermanentDownload", start, Lit("0.99")),
               Deal(dl, "AdvertisementSupportedModel", "OnDemandStream", start, None),
               Deal(dl, "SubscriptionModel", "ConditionalDownload", start, None),
               Deal(dl, "AdvertisementSupportedModel", "UserMadeClip", start, None),
               At(dl, << U, U >>) >>)

\* a variant that numbers by the stored track number
SequenceNumberFromTrackNumber(track, index) == Str(NatToString(track.number))

\* (index + 1).toString()
SequenceNumber(track, index) == Str(NatToString(index + 1))

\* lines 515-529: the document after the relationship block and doc.up()
ReleaseRelationships(ns, d, release, tracks) ==
    IF Len(tracks) > 1
    THEN LET relationships == Chain(Builder(ns, d), << E("ReleaseRelationships") >>)
             r == relationships.cur
         IN  Run(relationships.nodes,
                 [k \in DOMAIN tracks |->
                     At(r, << E("ResourceRelatedResourceReference"),
                              E("ResourceRelatedResourceReference"),
                              T(Lit(ResourceRef(tracks[k]))), U,
                              E("ReleaseResourceReference"),
                              T(Lit(ReleaseRef(release))), U,
                              E("SequenceNumber"),
                              T(Lit(SequenceNumber(tracks[k], k - 1))), U,
                              U >>)]
                 \o << At(r, << U >>), At(d, << U >>) >>)
    ELSE Run(ns, << At(d, << U >>) >>)

----------------------------------------------------------------------------
(* The inputs.  Each family varies one group of fields over every          *)
(* combination of its values and leaves the other fields at the base       *)
(* values; the families together cover every field generateDdexXml reads.  *)

MaxTracks == 2
MaxCredits == 2
MaxTicks == 1
MaxDurationLen == 5

DATE_PLAIN == << "2", "0", "2", "4", "-", "0", "5", "-", "0", "1" >>
DATE_ISO ==
    << "2", "0", "2", "3", "-", "1", "1", "-", "3", "0", "T",
       "0", "8", ":", "0", "0", ":", "0", "0", ".", "0", "0", "0", "Z" >>
DATE_NO_YEAR == << "u", "n", "k", "n", "o", "w", "n" >>
LEN_MM_SS == << "3", ":", "4", "5" >>
LEN_HH_MM_SS == << "1", ":", "0", "2", ":", "0", "3" >>
LEN_ISO == << "P", "T", "3", "M", "4", "5", "S" >>
LEN_WORDS == << "a", ":", "b" >>
MIX_RADIO_EDIT == << "R", "a", "d", "i", "o", " ", "E", "d", "i", "t" >>
MIX_LIVE_REMIX == << "L", "i", "v", "e", " ", "R", "e", "m", "i", "x" >>
MIX_ORIGINAL == << "O", "r", "i", "g", "i", "n", "a", "l", " ", "M", "i", "x" >>
EXPLICIT_UPPER == << "E", "x", "p", "l", "i", "c", "i", "t" >>
EXPLICIT_CLEAN == << "c", "l", "e", "a", "n" >>
EXPLICIT_UNSPECIFIED == << "u", "n", "s", "p", "e", "c", "i", "f", "i", "e", "d" >>
STYLE_WAV == << "w", "a", "v" >>
STYLE_FLAC == << "F", "l", "a", "c" >>
ROLE_ARTISTA == << "A", "r", "t", "i", "s", "t", "a" >>
ROLE_FEATURING == << "F", "e", "a", "t", "u", "r", "i", "n", "g" >>
ROLE_PRODUCER == << "P", "r", "o", "d", "u", "c", "e", "r" >>
ROLE_INVITADO ==
    << "A", "r", "t", "i", "s", "t", "a", " ", "I", "n", "v", "i", "t", "a", "d", "o" >>
ROLE_GUEST == << "G", "u", "e", "s", "t", " ", "A", "r", "t", "i", "s", "t" >>
DIMS_W_H == << "1", "4", "0", "0", "x", "1", "5", "0", "0" >>
DIMS_ONE == << "1", "4", "0", "0" >>
DIMS_SPACED == << " ", "6", "0", "0", " ", "x", " ", "8", "0", "0", " " >>
RANDOM_DRAW == << "k", "3", "j", "9", "z", "q" >>
RANDOM_OTHER == << "0", "a", "b", "7", "x", "m" >>

BaseRelease ==
    [ id |-> 7, upc |-> Some("0733581234567"), date |-> Some(DATE_PLAIN),
      catalog |-> None, front_pic |-> None, label |-> None,
      label_name |-> None, record_label |-> None,
      stage_name |-> Some("Los Base"), artist_name |-> None, user_name |-> None,
      release_type_name |-> None, version_title |-> Some("Primer Disco"),
      alt_title |-> None,
      label_cline |-> None, cline |-> None, cline_year |-> None,
      label_pline |-> None, pline |-> None, pline_year |-> None ]

\* the k-th credit of a track, with the given role name
Credit(k, role) ==
    [ role_name |-> role, stage_name |-> None,
      artist_name |-> Some("Artist " \o ToString(k)), name |-> None ]

BaseTrack(id, number) ==
    [ id |-> id, number |-> number,
      isrc |-> Some("USRC1760000" \o ToString(id)),
      song_name |-> Some("Song " \o ToString(id)),
      mix_version |-> None, explicit_status |-> None, audio_style |-> None,
      sound_length |-> Some(LEN_MM_SS), sound_url |-> Some("tracks/audio.mp3"),
      main_genre_en |-> None, secondary_genre_en |-> None,
      song_language_code |-> None, lyrics_language_code |-> None,
      has_lyrics |-> Some(0), artists |-> Some(<< >>) ]

OneTrack == << BaseTrack(1, 1) >>
Input(release, tracks) == [release |-> release, tracks |-> tracks]

OptText(s) == {None, Some(s)}
OptOrEmpty(s) == {None, Some(""), Some(s)}

HeaderInputs ==
    { Input([BaseRelease EXCEPT !.catalog = c, !.version_title = v,
                                !.alt_title = a, !.release_type_name = t],
            OneTrack) :
        c \in OptOrEmpty("CAT-001"),
        v \in OptOrEmpty("Primer Disco"),
        a \in {None, Some(""), Some("Primer Disco"), Some("First Record")},
        t \in {None, Some("Sencillo"), Some("EP")} }

NameInputs ==
    { Input([BaseRelease EXCEPT !.stage_name = s, !.artist_name = a,
                                !.user_name = u, !.label_name = l,
                                !.record_label = r],
            OneTrack) :
        s \in OptOrEmpty("Los Base"), a \in OptText("Base Legal"),
        u \in OptText("base_user"), l \in OptOrEmpty("Sello Uno"),
        r \in OptText("Disquera Dos") }

CopyrightInputs ==
    { Input([BaseRelease EXCEPT !.label_cline = lc, !.cline = c, !.cline_year = cy,
                                !.label_pline = lp, !.pline = p, !.pline_year = py,
                                !.date = d],
            OneTrack) :
        lc \in OptText("(C) Sello Uno"), c \in OptText("(C) Los Base"),
        cy \in {None, Some(0), Some(2019)},
        lp \in OptText("(P) Sello Uno"), p \in OptText("(P) Los Base"),
        py \in {None, Some(2020)},
        d \in {None, Some(<< >>), Some(DATE_PLAIN), Some(DATE_ISO), Some(DATE_NO_YEAR)} }

ImageInputs ==
    { Input([BaseRelease EXCEPT !.front_pic = f, !.label = l, !.id = i, !.upc = u],
            OneTrack) :
        f \in OptText("covers/front.jpg"),
        l \in {None} \cup { Some([release_front_art_dimensions |-> d]) :
                              d \in {None, Some(DIMS_W_H), Some(DIMS_ONE),
                                     Some(DIMS_SPACED)} },
        i \in {1, 7},
        u \in OptOrEmpty("0733581234567") }

\* track lists with distinct ids, in ascending track-number order
TrackIds == 1..(MaxTracks + 1)
IdLists ==
    UNION { { s \in [1..n -> TrackIds] : \A i, j \in 1..n : i # j => s[i] # s[j] } :
              n \in 0..MaxTracks }
TrackListInputs ==
    { Input([BaseRelease EXCEPT !.front_pic = f],
            [k \in DOMAIN ids |-> BaseTrack(ids[k], step * k)]) :
        f \in OptText("covers/front.jpg"), ids \in IdLists, step \in {1, 2} }

RoleNames ==
    { None, Some(<< >>), Some(ROLE_ARTISTA), Some(ROLE_FEATURING),
      Some(ROLE_PRODUCER), Some(ROLE_INVITADO), Some(ROLE_GUEST) }
RoleLists == UNION { [1..n -> RoleNames] : n \in 0..MaxCredits }
CreditInputs ==
    { Input(BaseRelease,
            << [BaseTrack(1, 1) EXCEPT
                  !.artists = Some([k \in DOMAIN roles |-> Credit(k, roles[k])])] >>) :
        roles \in RoleLists }

CreditNameInputs ==
    { Input(BaseRelease,
            << [BaseTrack(1, 1) EXCEPT
                  !.artists = Some(<< [ role_name |-> Some(ROLE_ARTISTA),
                                        stage_name |-> s, artist_name |-> a,
                                        name |-> n ] >>)] >>) :
        s \in OptOrEmpty("La Voz"), a \in OptOrEmpty("Ana Voz"),
        n \in OptOrEmpty("ana") }

TrackVocabularyInputs ==
    { Input(BaseRelease,
            << [BaseTrack(1, 1) EXCEPT !.mix_version = m, !.explicit_status = e,
                                       !.audio_style = a, !.sound_length = d] >>) :
        m \in {None, Some(MIX_RADIO_EDIT), Some(MIX_LIVE_REMIX), Some(MIX_ORIGINAL)},
        e \in {None, Some(EXPLICIT_UPPER), Some(EXPLICIT_CLEAN),
               Some(EXPLICIT_UNSPECIFIED)},
        a \in {None, Some(STYLE_WAV), Some(STYLE_FLAC)},
        d \in {None, Some(<< >>), Some(LEN_MM_SS), Some(LEN_HH_MM_SS),
               Some(LEN_ISO), Some(LEN_WORDS)} }

TrackOptionalInputs ==
    { Input(BaseRelease,
            << [BaseTrack(1, 1) EXCEPT !.main_genre_en = g, !.secondary_genre_en = sg,
                                       !.song_language_code = sl,
                                       !.lyrics_language_code = ll,
                                       !.has_lyrics = h, !.sound_url = u,
                                       !.isrc = i, !.song_name = n,
                                       !.artists = ar],
               [BaseTrack(2, 2) EXCEPT !.main_genre_en = Some("Rock"),
                                       !.secondary_genre_en = Some("Indie")] >>) :
        g \in OptText("Pop"), sg \in OptText("Latin"), sl \in OptText("es"),
        ll \in OptText("en"), h \in {None, Some(0), Some(1)},
        u \in OptText("tracks/audio.mp3"), i \in OptText("USRC17600001"),
        n \in OptText("Song 1"), ar \in {None, Some(<< >>)} }

Inputs ==
    HeaderInputs \cup NameInputs \cup CopyrightInputs \cup ImageInputs
        \cup TrackListInputs \cup CreditInputs \cup CreditNameInputs
        \cup TrackVocabularyInputs \cup TrackOptionalInputs

----------------------------------------------------------------------------
(* generateDdexXml as a state machine.                                     *)

\* const { release, tracks } = releaseData (line 133)
Release == releaseData.release
Tracks == releaseData.tracks
\* const labelName, const releaseArtistName (lines 136-137)
LabelName == getLabelName(Release)
ReleaseArtistName == getReleaseArtistName(Release)

\* what Math.random() draws: one value for most inputs, either of two for
\* the header inputs
RandomDraws(input) ==
    IF input \in HeaderInputs THEN {RANDOM_DRAW, RANDOM_OTHER} ELSE {RANDOM_DRAW}

Init ==
    /\ releaseData \in Inputs
    /\ pc = "messageId"
    /\ clock = MillisPerSecond - 1
    /\ random \in RandomDraws(releaseData)
    /\ messageId = ""
    /\ sentDateTime = ""
    /\ nodes = << >>
    /\ doc = 0
    /\ resourceList = 0
    /\ trackIndex = 0
    /\ result = "none"
    /\ duration = None
    /\ isoDuration = None
    /\ call = None
    /\ value = None
    /\ NoRequest

\* line 134: const messageId = generateMessageId()
GenerateMessageId ==
    /\ pc = "messageId"
    /\ messageId' = Str(generateMessageId(clock, random))
    /\ pc' = "sentDateTime"
    /\ UNCHANGED << releaseData, clock, random, sentDateTime, nodes, doc,
                    resourceList, trackIndex, result, durVars, callVars, httpVars >>

\* time passes between the two clock reads of lines 134 and 135
Tick ==
    /\ pc = "sentDateTime"
    /\ clock < MillisPerSecond - 1 + MaxTicks
    /\ clock' = clock + 1
    /\ UNCHANGED << releaseData, pc, random, messageId, sentDateTime, nodes, doc,
                    resourceList, trackIndex, result, durVars, callVars, httpVars >>

\* line 135: const sentDateTime = new Date().toISOString()
ReadSentDateTime ==
    /\ pc = "sentDateTime"
    /\ sentDateTime' = Str(toISOString(clock))
    /\ pc' = "header"
    /\ UNCHANGED << releaseData, clock, random, messageId, nodes, doc,
                    resourceList, trackIndex, result, durVars, callVars, httpVars >>

\* lines 139-172: const doc = create(...)...; the message header
BuildMessageHeader ==
    /\ pc = "header"
    /\ LET b == Chain(Builder(<< >>, 0),
                      HeaderCalls(messageId, sentDateTime, LabelName))
       IN  /\ doc' = b.cur
           /\ nodes' = Run(b.nodes, HeaderTail(b.cur, Release))
    /\ pc' = "resourceList"
    /\ UNCHANGED << releaseData, clock, random, messageId, sentDateTime,
                    resourceList, trackIndex, result, durVars, callVars, httpVars >>

\* line 177: const resourceList = doc.ele('ResourceList')
OpenResourceList ==
    /\ pc = "resourceList"
    /\ LET b == Chain(Builder(nodes, doc), << E("ResourceList") >>)
       IN  /\ resourceList' = b.cur
           /\ nodes' = b.nodes
    /\ trackIndex' = 1
    /\ pc' = "tracks"
    /\ UNCHANGED << releaseData, clock, random, messageId, sentDateTime, doc,
                    result, durVars, callVars, httpVars >>

\* lines 180-304: one iteration of tracks.forEach
AddSoundRecording ==
    /\ pc = "tracks"
    /\ trackIndex <= Len(Tracks)
    /\ IF SoundRecordingThrows(Release, Tracks[trackIndex])
       THEN /\ pc' = "thrown"
            /\ result' = "TypeError"
            /\ UNCHANGED << nodes, trackIndex >>
       ELSE /\ nodes' = SoundRecording(nodes, resourceList, Release,
                                       Tracks[trackIndex], ReleaseArtistName)
            /\ trackIndex' = trackIndex + 1
            /\ UNCHANGED << pc, result >>
    /\ UNCHANGED << releaseData, clock, random, messageId, sentDateTime, doc,
                    resourceList, durVars, callVars, httpVars >>

\* lines 306-339: the cover image, after the last track
AddImage ==
    /\ pc = "tracks"
    /\ trackIndex > Len(Tracks)
    /\ nodes' = Image(nodes, resourceList, Release)
    /\ pc' = "releaseList"
    /\ UNCHANGED << releaseData, clock, random, messageId, sentDateTime, doc,
                    resourceList, trackIndex, result, durVars, callVars, httpVars >>

\* lines 344-439: the Release list
BuildReleaseList ==
    /\ pc = "releaseList"
    /\ IF ReleaseListThrows(Release)
       THEN /\ pc' = "thrown"
            /\ result' = "TypeError"
            /\ UNCHANGED nodes
       ELSE /\ nodes' = ReleaseList(nodes, doc, Release, Tracks, LabelName,
                                    ReleaseArtistName)
            /\ pc' = "dealList"
            /\ UNCHANGED result
    /\ UNCHANGED << releaseData, clock, random, messageId, sentDateTime, doc,
                    resourceList, trackIndex, durVars, callVars, httpVars >>

\* lines 444-510: the deal list
BuildDealList ==
    /\ pc = "dealList"
    /\ nodes' = DealList(nodes, doc, Release)
    /\ pc' = "relationships"
    /\ UNCHANGED << releaseData, clock, random, messageId, sentDateTime, doc,
                    resourceList, trackIndex, result, durVars, callVars, httpVars >>

\* lines 515-529: the Release relationships and doc.up()
BuildReleaseRelationships ==
    /\ pc = "relationships"
    /\ nodes' = ReleaseRelationships(nodes, doc, Release, Tracks)
    /\ pc' = "end"
    /\ UNCHANGED << releaseData, clock, random, messageId, sentDateTime, doc,
                    resourceList, trackIndex, result, durVars, callVars, httpVars >>

\* line 531: return doc.end({ prettyPrint: true }), the whole document
Return ==
    /\ pc = "end"
    /\ result' = "xml"
    /\ pc' = "returned"
    /\ UNCHANGED << releaseData, clock, random, messageId, sentDateTime, nodes,
                    doc, resourceList, trackIndex, durVars, callVars, httpVars >>

Next ==
    \/ GenerateMessageId
    \/ Tick
    \/ ReadSentDateTime
    \/ BuildMessageHeader
    \/ OpenResourceList
    \/ AddSoundRecording
    \/ AddImage
    \/ BuildReleaseList
    \/ BuildDealList
    \/ BuildReleaseRelationships
    \/ Return

Spec == Init /\ [][Next]_vars

----------------------------------------------------------------------------
(* convertToIsoDuration called on its own, for every string over a small   *)
(* alphabet up to MaxDurationLen characters and for the listed examples.   *)

DurationAlphabet == {"0", "1", ":", "a", "P", "T"}
LEN_ZERO_HOURS == << "0", ":", "0", "2", ":", "0", "3" >>
LEN_NO_SECONDS == << "3", ":" >>
LEN_FOUR_PARTS == << "1", ":", "2", ":", "3", ":", "4" >>
LEN_NINETY_MINUTES == << "9", "0", ":", "0", "7" >>
LEN_PADDED == << " ", "3", ":", " ", "4", "5" >>
LEN_NEGATIVE_HOURS == << "-", "1", ":", "0", "2", ":", "0", "3" >>
LEN_PLAIN_SECONDS == << "2", "2", "5" >>
DurationExamples ==
    { LEN_MM_SS, LEN_HH_MM_SS, LEN_ISO, LEN_WORDS, LEN_ZERO_HOURS, LEN_NO_SECONDS,
      LEN_FOUR_PARTS, LEN_NINETY_MINUTES, LEN_PADDED, LEN_NEGATIVE_HOURS,
      LEN_PLAIN_SECONDS }
DurationInputs ==
    DurationExamples
        \cup UNION { [1..n -> DurationAlphabet] : n \in 0..MaxDurationLen }

DurationInit ==
    /\ duration \in { Some(d) : d \in DurationInputs }
    /\ isoDuration = None
    /\ releaseData = Input(BaseRelease, << >>)
    /\ pc = "idle"
    /\ clock = MillisPerSecond - 1
    /\ random = RANDOM_DRAW
    /\ messageId = ""
    /\ sentDateTime = ""
    /\ nodes = << >>
    /\ doc = 0
    /\ resourceList = 0
    /\ trackIndex = 0
    /\ result = "none"
    /\ call = None
    /\ value = None
    /\ NoRequest

\* lines 32-56: one call of convertToIsoDuration(duration)
ConvertToIsoDuration ==
    /\ pc = "idle"
    /\ isoDuration = None
    /\ isoDuration' = Some(convertToIsoDuration(Get(duration)))
    /\ UNCHANGED << duration, genVars, callVars, httpVars >>

DurationNext == ConvertToIsoDuration

DurationSpec == DurationInit /\ [][DurationNext]_vars

----------------------------------------------------------------------------
(* Reading the generated document.                                         *)

\* the ern:NewReleaseMessage element, the first node created
Root == 1

Indices(ns) == [i \in 1..Len(ns) |-> i]
\* the child elements of node p, in document order
Children(ns, p) ==
    LET IsChild(i) == ns[i].parent = p
    IN  SelectSeq(Indices(ns), IsChild)
\* the elements with the given tag, in document order
Tagged(ns, tag) ==
    LET HasTag(i) == ns[i].tag = tag
    IN  SelectSeq(Indices(ns), HasTag)
ChildrenTagged(ns, p, tag) ==
    LET HasTag(i) == ns[i].tag = tag
    IN  SelectSeq(Children(ns, p), HasTag)
Tags(ns, is) == [k \in DOMAIN is |-> ns[is[k]].tag]
Texts(ns, is) == [k \in DOMAIN is |-> ns[is[k]].text]
\* the text of the first child of p with the given tag; None without one
TextOfChild(ns, p, tag) ==
    LET c == ChildrenTagged(ns, p, tag)
    IN  IF c = << >> THEN None ELSE ns[c[1]].text
\* the <<FullName, ArtistRole>> pairs of the DisplayArtist children of p
DisplayEntries(ns, p) ==
    LET das == ChildrenTagged(ns, p, "DisplayArtist")
    IN  [k \in DOMAIN das |->
            << TextOfChild(ns, ChildrenTagged(ns, das[k], "PartyName")[1], "FullName"),
               TextOfChild(ns, das[k], "ArtistRole") >>]

\* the SoundRecording element of the k-th track
SoundRecordingNode(k) == Tagged(nodes, "SoundRecording")[k]
\* track.artists || []
Credits(track) == IF IsSome(track.artists) THEN Get(track.artists) ELSE << >>
MappedRole(a) == mapRoleToDdex(RoleNameOrEmpty(a))
EntryOf(a) == << Some(getArtistName(a)), Some(MappedRole(a)) >>
FallbackEntries == << << Some(ReleaseArtistName), Some("MainArtist") >> >>
FallbackEmitted(k) == DisplayEntries(nodes, SoundRecordingNode(k)) = FallbackEntries

----------------------------------------------------------------------------
(* C1: the five blocks of the document.                                    *)

\* C1: in every returned document MessageHeader, ResourceList, ReleaseList,
\* DealList and, when emitted, ReleaseRelationships are the children of the
\* root element, in that order, and none of them lies inside another.
C1_BlocksAreChildrenOfRoot ==
    result = "xml" =>
        /\ Tags(nodes, Children(nodes, Root)) =
               << "MessageHeader", "ResourceList", "ReleaseList", "DealList" >>
                   \o (IF Len(Tracks) > 1 THEN << "ReleaseRelationships" >> ELSE << >>)
        /\ \A i \in DOMAIN nodes :
               nodes[i].tag \in {"MessageHeader", "ResourceList", "ReleaseList",
                                 "DealList", "ReleaseRelationships"}
                   => nodes[i].parent = Root

\* a returned document whose four later blocks all lie inside MessageHeader
C1_BlocksInsideMessageHeader ==
    /\ result = "xml"
    /\ Len(Tracks) > 1
    /\ Tags(nodes, Children(nodes, Root)) = << "MessageHeader" >>
    /\ \A tag \in {"ResourceList", "ReleaseList", "DealList", "ReleaseRelationships"} :
           \E i \in DOMAIN nodes :
               /\ nodes[i].tag = tag
               /\ nodes[nodes[i].parent].tag = "MessageHeader"

----------------------------------------------------------------------------
(* C2, C3: the display artists of a sound recording.                       *)

\* the DDEX roles of the table whose text contains "artist", in any case
MappedRoleContainsArtist(a) == MappedRole(a) \in {"MainArtist", "FeaturedArtist"}
SelectedByMappedRole(credits) ==
    LET IsMain(a) == MappedRole(a) = "MainArtist"
        main == SelectSeq(credits, IsMain)
    IN  IF Len(main) > 0 THEN main ELSE SelectSeq(credits, MappedRoleContainsArtist)

\* C2: for a track with credits, the DisplayArtist entries are the credits
\* mapped to MainArtist if there is one, otherwise the credits whose mapped
\* role contains "artist" (so a Featuring credit is one), in input order.
\* Stated for the tracks where this selection is not empty.
C2_DisplayArtistsByMappedRole ==
    result = "xml" =>
        \A k \in DOMAIN Tracks :
            LET selected == SelectedByMappedRole(Credits(Tracks[k]))
            IN  selected # << >> =>
                    DisplayEntries(nodes, SoundRecordingNode(k)) =
                        [j \in DOMAIN selected |-> EntryOf(selected[j])]

\* a track whose only credit is Featuring (FeaturedArtist) and whose only
\* DisplayArtist is the release artist
C2_FeaturingNotDisplayed ==
    /\ result = "xml"
    /\ Len(Tracks) = 1
    /\ Len(Credits(Tracks[1])) = 1
    /\ Credits(Tracks[1])[1].role_name = Some(ROLE_FEATURING)
    /\ MappedRole(Credits(Tracks[1])[1]) = "FeaturedArtist"
    /\ FallbackEmitted(1)

\* a.role_name && a.role_name.toLowerCase().includes('artist')
RoleNameContainsArtist(a) ==
    /\ TruthyChars(a.role_name)
    /\ includes(toLowerCase(Get(a.role_name)), << "a", "r", "t", "i", "s", "t" >>)
NoPrimaryCredit(credits) ==
    \A j \in DOMAIN credits :
        MappedRole(credits[j]) # "MainArtist" /\ ~RoleNameContainsArtist(credits[j])

----------------------------------------------------------------------------
(* C4, C5: convertToIsoDuration.                                           *)

PT0S == << "P", "T", "0", "S" >>
IsIsoDuration(d) == startsWith(d, << "P", "T" >>)
\* a part that parseInt reads as a number
IsNumericPart(p) == ~parseInt(p).nan
\* one of the three recognised shapes, read as generously as the code reads
RecognisedShape(d) ==
    LET parts == split(d, ":")
    IN  \/ IsIsoDuration(d)
        \/ /\ Len(parts) \in {2, 3}
           /\ \A k \in DOMAIN parts : IsNumericPart(parts[k])

\* C4: an input of none of the three recognised shapes gives PT0S, and no
\* result contains NaN.
C4_UnrecognisedGivesPT0S ==
    IsSome(isoDuration) =>
        /\ ~RecognisedShape(Get(duration)) => Get(isoDuration) = PT0S
        /\ ~includes(Get(isoDuration), << "N", "a", "N" >>)

\* "a:b" converted to PTNaNMNaNS
C4_WordsGiveNaN ==
    /\ duration = Some(LEN_WORDS)
    /\ isoDuration =
           Some(<< "P", "T", "N", "a", "N", "M", "N", "a", "N", "S" >>)

AllDigits(p) == p # << >> /\ \A k \in DOMAIN p : IsDigit(p[k])
\* a decimal numeral without its leading zeros
RECURSIVE Canonical(_)
Canonical(ds) ==
    IF Len(ds) > 1 /\ Head(ds) = "0" THEN Canonical(Tail(ds)) ELSE ds

\* C5: for parts made of digits, "M:S" gives PT<M>M<S>S, "H:M:S" gives
\* PT<H>H<M>M<S>S when H > 0 and PT<M>M<S>S when H = 0, and an input that
\* already starts with PT is returned unchanged; "3:45" gives PT3M45S,
\* "1:02:03" gives PT1H2M3S and "0:02:03" gives PT2M3S.
C5_NumericParts ==
    IsSome(isoDuration) =>
        LET d == Get(duration)
            out == Get(isoDuration)
            parts == split(d, ":")
            numeric == \A k \in DOMAIN parts : AllDigits(parts[k])
            MS(m, s) == << "P", "T" >> \o Canonical(m) \o << "M" >>
                            \o Canonical(s) \o << "S" >>
        IN  /\ IsIsoDuration(d) => out = d
            /\ Len(parts) = 2 /\ numeric => out = MS(parts[1], parts[2])
            /\ Len(parts) = 3 /\ numeric /\ Canonical(parts[1]) # << "0" >> =>
                   out = << "P", "T" >> \o Canonical(parts[1]) \o << "H" >>
                             \o Canonical(parts[2]) \o << "M" >>
                             \o Canonical(parts[3]) \o << "S" >>
            /\ Len(parts) = 3 /\ numeric /\ Canonical(parts[1]) = << "0" >> =>
                   out = MS(parts[2], parts[3])
            /\ d = LEN_MM_SS => out = << "P", "T", "3", "M", "4", "5", "S" >>
            /\ d = LEN_HH_MM_SS => out = << "P", "T", "1", "H", "2", "M", "3", "S" >>
            /\ d = LEN_ZERO_HOURS => out = << "P", "T", "2", "M", "3", "S" >>

\* "90:07" converted as minutes and seconds
C5_NinetyMinutes ==
    /\ duration = Some(LEN_NINETY_MINUTES)
    /\ isoDuration = Some(<< "P", "T", "9", "0", "M", "7", "S" >>)

----------------------------------------------------------------------------
(* C6, C7, C8: what generateDdexXml does with absent and malformed fields. *)

RequiredFieldsPresent ==
    /\ IsSome(Release.upc)
    /\ IsSome(Release.date)
    /\ \A k \in DOMAIN Tracks :
           IsSome(Tracks[k].isrc) /\ IsSome(Tracks[k].sound_length)

\* C6: with the UPC, the release date and every track's ISRC and duration
\* present, generateDdexXml never throws, whichever optional fields are
\* absent, and what it returns is the document.
C6_NoThrowWhenRequiredPresent ==
    RequiredFieldsPresent =>
        /\ pc # "thrown"
        /\ result # "TypeError"
        /\ pc = "returned" => result = "xml"

\* a document returned for a track without credits list, mix version,
\* explicit status, audio style, genres, languages and lyrics flag, of a
\* release without label, cover, catalog number and copyright lines
C6_ReturnedWithoutOptionals ==
    /\ result = "xml"
    /\ RequiredFieldsPresent
    /\ Len(Tracks) > 0
    /\ \A f \in {"artists", "mix_version", "explicit_status", "audio_style",
                 "main_genre_en", "secondary_genre_en", "song_language_code",
                 "lyrics_language_code", "has_lyrics"} : Tracks[1][f] = None
    /\ \A f \in {"label", "front_pic", "catalog", "label_cline", "cline",
                 "cline_year", "label_pline", "pline", "pline_year"} :
           Release[f] = None

\* C7: with a required field missing (release date, UPC, a track's ISRC or
\* duration) generateDdexXml still returns a document and raises nothing.
C7_BestEffortWhenRequiredMissing ==
    ~RequiredFieldsPresent =>
        /\ pc # "thrown"
        /\ result # "TypeError"

\* a release without date, on which generateDdexXml threw a TypeError
C7_MissingDateThrows ==
    /\ ~IsSome(Release.date)
    /\ IsSome(Release.upc)
    /\ pc = "thrown"
    /\ result = "TypeError"

\* the release date does not start with a digit
NoParsableYear ==
    /\ IsSome(Release.date)
    /\ Get(Release.date) = << >> \/ ~IsDigit(Head(Get(Release.date)))
\* a copyright text without its explicit year
YearFallbackNeeded ==
    \/ /\ Truthy(Or(Release.label_cline, Release.cline))
       /\ ~TruthyNum(Release.cline_year)
    \/ /\ Truthy(Or(Release.label_pline, Release.pline))
       /\ ~TruthyNum(Release.pline_year)

\* C8: with a release date without a parsable year and the year fallback
\* needed, generateDdexXml returns no document, and no Year of a document
\* is NaN.
C8_MalformedDateSurfaces ==
    /\ NoParsableYear /\ YearFallbackNeeded => result # "xml"
    /\ \A i \in DOMAIN nodes : nodes[i].tag = "Year" => nodes[i].text # Some("NaN")

\* a document returned for the date "unknown" whose CLine Year is NaN
C8_NaNYearReturned ==
    /\ result = "xml"
    /\ Release.date = Some(DATE_NO_YEAR)
    /\ \E i \in DOMAIN nodes :
           /\ nodes[i].tag = "Year"
           /\ nodes[nodes[i].parent].tag = "CLine"
           /\ nodes[i].text = Some("NaN")

----------------------------------------------------------------------------
(* C9, C10: the order of the tracks in the derived lists.                  *)

TrackRefs == [k \in DOMAIN Tracks |-> Some("A" \o ToString(Tracks[k].id))]

\* C9: the ResourceReference list of the Release element is the tracks'
\* references A<id> in input order, followed by the reference of the cover
\* image if and only if the release has one; the SoundRecording elements
\* carry the same references in the same order.
C9_ResourceReferenceOrder ==
    result = "xml" =>
        LET releases == Tagged(nodes, "Release")
            images == Tagged(nodes, "Image")
            recordings == Tagged(nodes, "SoundRecording")
            coverRefs == [k \in DOMAIN images |->
                             TextOfChild(nodes, images[k], "ResourceReference")]
        IN  /\ Len(releases) = 1
            /\ Texts(nodes, ChildrenTagged(nodes, releases[1], "ResourceReference"))
                   = TrackRefs \o coverRefs
            /\ Len(images) = (IF Truthy(Release.front_pic) THEN 1 ELSE 0)
            /\ [k \in DOMAIN recordings |->
                   TextOfChild(nodes, recordings[k], "ResourceReference")] = TrackRefs

\* a document for two tracks whose ids are in descending order, with a cover
C9_TwoTracksAndCover ==
    /\ result = "xml"
    /\ Len(Tracks) = 2
    /\ Tracks[1].id > Tracks[2].id
    /\ Truthy(Release.front_pic)
    /\ Len(ChildrenTagged(nodes, Tagged(nodes, "Release")[1], "ResourceReference")) = 3

\* C10: the ReleaseRelationships element exists if and only if the release
\* has more than one track; it then has one entry per track in input order,
\* the i-th pairing A<id> of the i-th track with R<id> of the release under
\* SequenceNumber i, whatever the track's stored number.
C10_ReleaseRelationships ==
    result = "xml" =>
        LET blocks == Tagged(nodes, "ReleaseRelationships")
        IN  /\ Len(blocks) = (IF Len(Tracks) > 1 THEN 1 ELSE 0)
            /\ \A b \in DOMAIN blocks :
                   LET entries == Children(nodes, blocks[b])
                   IN  [k \in DOMAIN entries |->
                           << nodes[entries[k]].tag,
                              TextOfChild(nodes, entries[k],
                                          "ResourceRelatedResourceReference"),
                              TextOfChild(nodes, entries[k], "ReleaseResourceReference"),
                              TextOfChild(nodes, entries[k], "SequenceNumber") >>]
                       = [k \in DOMAIN Tracks |->
                             << "ResourceRelatedResourceReference",
                                TrackRefs[k],
                                Some("R" \o ToString(Release.id)),
                                Some(ToString(k)) >>]

\* a document for two tracks whose stored numbers are 2 and 4
C10_NumbersDifferFromPositions ==
    /\ result = "xml"
    /\ Len(Tracks) = 2
    /\ Tracks[1].number = 2
    /\ Tracks[2].number = 4
    /\ Len(Tagged(nodes, "ReleaseRelationships")) = 1

----------------------------------------------------------------------------
(* C11: the contributors of a sound recording.                             *)

\* the <<FullName, Role>> pairs of the Contributor children of p
ContributorEntries(ns, p) ==
    LET cs == ChildrenTagged(ns, p, "Contributor")
    IN  [k \in DOMAIN cs |->
            << TextOfChild(ns, ChildrenTagged(ns, cs[k], "PartyName")[1], "FullName"),
               TextOfChild(ns, cs[k], "Role") >>]

\* C11: the Contributor entries of a track's sound recording are its
\* credits, one entry per credit in input order with the credit's name and
\* mapped role, whether or not the credit is also a DisplayArtist.
C11_ContributorPerCredit ==
    result = "xml" =>
        \A k \in DOMAIN Tracks :
            LET credits == Credits(Tracks[k])
                entries == ContributorEntries(nodes, SoundRecordingNode(k))
            IN  /\ Len(entries) = Len(credits)
                /\ \A j \in DOMAIN credits : entries[j] = EntryOf(credits[j])

\* a track with a MainArtist credit and a Producer credit: the MainArtist is
\* the DisplayArtist and both are Contributors
C11_MainArtistIsAlsoContributor ==
    /\ result = "xml"
    /\ Len(Tracks) = 1
    /\ Len(Credits(Tracks[1])) = 2
    /\ Credits(Tracks[1])[1].role_name = Some(ROLE_ARTISTA)
    /\ Credits(Tracks[1])[2].role_name = Some(ROLE_PRODUCER)
    /\ DisplayEntries(nodes, SoundRecordingNode(1)) = << EntryOf(Credits(Tracks[1])[1]) >>
    /\ Len(ContributorEntries(nodes, SoundRecordingNode(1))) = 2

----------------------------------------------------------------------------
(* The mapper and name helpers called on their own.                        *)

Capitalised(s) == IF s = << >> THEN s ELSE << ToUpperCaseChar(Head(s)) >> \o Tail(s)
Casings(s) == {s, toUpperCase(s), Capitalised(s)}
WORD_EDIT == << "e", "d", "i", "t" >>
WORD_MIX == << "m", "i", "x" >>
WORD_ORIGINAL == << "o", "r", "i", "g", "i", "n", "a", "l" >>
WORD_PREMIXED == << "p", "r", "e", "m", "i", "x", "e", "d" >>
MixKeywords == { MIX_VERSION_MAP[k][1] : k \in DOMAIN MIX_VERSION_MAP }
MixWords == MixKeywords \cup {WORD_EDIT, WORD_MIX, WORD_ORIGINAL, WORD_PREMIXED}
MixVersionInputs ==
    {None, Some(<< >>), Some(MIX_RADIO_EDIT), Some(MIX_LIVE_REMIX), Some(MIX_ORIGINAL)}
        \cup { Some(c) : c \in UNION { Casings(w) : w \in MixWords } }
        \cup { Some(a \o << " " >> \o b) :
                 a \in UNION { Casings(w) : w \in MixWords }, b \in MixWords }

HelperCall(fn, arg) == [fn |-> fn, arg |-> arg]
MixVersionCalls == { HelperCall("mapMixVersion", m) : m \in MixVersionInputs }

\* lines 76-85: one call of mapMixVersion(call.arg)
MapMixVersion ==
    /\ pc = "idle"
    /\ IsSome(call) /\ value = None
    /\ Get(call).fn = "mapMixVersion"
    /\ value' = Some(mapMixVersion(Get(call).arg))
    /\ UNCHANGED << call, genVars, durVars, httpVars >>

RoleKeys == { ROLE_TO_DDEX_MAP[k][1] : k \in DOMAIN ROLE_TO_DDEX_MAP }
ROLE_UNKNOWN == << "T", "r", "i", "a", "n", "g", "l", "e" >>
RoleInputs ==
    RoleKeys \cup OBJECT_PROTOTYPE_KEYS \cup {<< >>, ROLE_GUEST, ROLE_UNKNOWN}
        \cup { toLowerCase(r) : r \in RoleKeys }
        \cup { toUpperCase(r) : r \in RoleKeys }
        \cup { r \o << " " >> : r \in RoleKeys }
        \cup { << " " >> \o r : r \in RoleKeys }
        \cup { r \o << "s" >> : r \in RoleKeys }
RoleCalls == { HelperCall("mapRoleToDdex", r) : r \in RoleInputs }

\* lines 61-63: one call of mapRoleToDdex(call.arg)
MapRoleToDdex ==
    /\ pc = "idle"
    /\ IsSome(call) /\ value = None
    /\ Get(call).fn = "mapRoleToDdex"
    /\ value' = Some(mapRoleToDdex(Get(call).arg))
    /\ UNCHANGED << call, genVars, durVars, httpVars >>

EXPLICIT_EDITED == << "e", "d", "i", "t", "e", "d" >>
EXPLICIT_DIRTY == << "d", "i", "r", "t", "y" >>
ExplicitWords ==
    { toLowerCase(EXPLICIT_UPPER), EXPLICIT_CLEAN, EXPLICIT_EDITED,
      EXPLICIT_UNSPECIFIED, EXPLICIT_DIRTY }
ExplicitStatusInputs ==
    {None, Some(<< >>), Some(EXPLICIT_UPPER)}
        \cup { Some(c) : c \in UNION { Casings(w) : w \in ExplicitWords } }
        \cup { Some(w \o << " " >>) : w \in ExplicitWords }
        \cup { Some(c) : c \in UNION { Casings(w) : w \in OBJECT_PROTOTYPE_KEYS } }
ExplicitStatusCalls ==
    { HelperCall("mapExplicitStatus", s) : s \in ExplicitStatusInputs }

\* lines 68-71: one call of mapExplicitStatus(call.arg)
MapExplicitStatus ==
    /\ pc = "idle"
    /\ IsSome(call) /\ value = None
    /\ Get(call).fn = "mapExplicitStatus"
    /\ value' = Some(mapExplicitStatus(Get(call).arg))
    /\ UNCHANGED << call, genVars, durVars, httpVars >>

OptName(s) == {None, Some(""), Some(" "), Some(s)}
ArtistNameCalls ==
    { HelperCall("getArtistName",
                 [ role_name |-> Some(ROLE_ARTISTA), stage_name |-> s,
                   artist_name |-> a, name |-> n ]) :
        s \in OptName("La Voz"), a \in OptName("Ana Voz"), n \in OptName("ana") }
ReleaseArtistNameCalls ==
    { HelperCall("getReleaseArtistName",
                 [BaseRelease EXCEPT !.stage_name = s, !.artist_name = a,
                                     !.user_name = u]) :
        s \in OptName("Los Base"), a \in OptName("Base Legal"),
        u \in OptName("base_user") }
LabelNameCalls ==
    { HelperCall("getLabelName",
                 [BaseRelease EXCEPT !.label_name = l, !.record_label = r]) :
        l \in OptName("Sello Uno"), r \in OptName("Disquera Dos") }

\* lines 90-92: one call of getArtistName(call.arg)
GetArtistName ==
    /\ pc = "idle"
    /\ IsSome(call) /\ value = None
    /\ Get(call).fn = "getArtistName"
    /\ value' = Some(getArtistName(Get(call).arg))
    /\ UNCHANGED << call, genVars, durVars, httpVars >>

\* lines 97-99: one call of getReleaseArtistName(call.arg)
GetReleaseArtistName ==
    /\ pc = "idle"
    /\ IsSome(call) /\ value = None
    /\ Get(call).fn = "getReleaseArtistName"
    /\ value' = Some(getReleaseArtistName(Get(call).arg))
    /\ UNCHANGED << call, genVars, durVars, httpVars >>

\* lines 104-106: one call of getLabelName(call.arg)
GetLabelName ==
    /\ pc = "idle"
    /\ IsSome(call) /\ value = None
    /\ Get(call).fn = "getLabelName"
    /\ value' = Some(getLabelName(Get(call).arg))
    /\ UNCHANGED << call, genVars, durVars, httpVars >>

HelperCalls ==
    MixVersionCalls \cup RoleCalls \cup ExplicitStatusCalls \cup ArtistNameCalls
        \cup ReleaseArtistNameCalls \cup LabelNameCalls

HelperInit ==
    /\ call \in { Some(c) : c \in HelperCalls }
    /\ value = None
    /\ duration = None
    /\ isoDuration = None
    /\ releaseData = Input(BaseRelease, << >>)
    /\ pc = "idle"
    /\ clock = MillisPerSecond - 1
    /\ random = RANDOM_DRAW
    /\ messageId = ""
    /\ sentDateTime = ""
    /\ nodes = << >>
    /\ doc = 0
    /\ resourceList = 0
    /\ trackIndex = 0
    /\ result = "none"
    /\ NoRequest

HelperNext ==
    \/ MapMixVersion
    \/ MapRoleToDdex
    \/ MapExplicitStatus
    \/ GetArtistName
    \/ GetReleaseArtistName
    \/ GetLabelName

HelperSpec == HelperInit /\ [][HelperNext]_vars

\* the call made and what it returned
Called(fn) == IsSome(call) /\ Get(call).fn = fn /\ IsSome(value)
Arg == Get(call).arg
Returned == Get(value)

----------------------------------------------------------------------------
(* C12: mapMixVersion.                                                     *)

MIX_KEYWORD_ORDER ==
    << << "r", "e", "m", "i", "x" >>,
       << "a", "c", "o", "u", "s", "t", "i", "c" >>,
       << "l", "i", "v", "e" >>,
       << "i", "n", "s", "t", "r", "u", "m", "e", "n", "t", "a", "l" >>,
       << "a", "c", "a", "p", "e", "l", "l", "a" >>,
       << "e", "x", "t", "e", "n", "d", "e", "d" >>,
       << "r", "a", "d", "i", "o" >>,
       << "d", "e", "m", "o" >> >>

\* C12: mapMixVersion returns the type of the first keyword, in the order
\* remix, acoustic, live, instrumental, acapella, extended, radio, demo,
\* that the lower-cased input contains; "Radio Edit" gives RadioEdit, and an
\* absent input or one without keyword gives no value.
C12_FirstKeywordInTableOrder ==
    Called("mapMixVersion") =>
        /\ [k \in DOMAIN MIX_VERSION_MAP |-> MIX_VERSION_MAP[k][1]] = MIX_KEYWORD_ORDER
        /\ ~IsSome(Arg) => Returned = None
        /\ IsSome(Arg) =>
               LET lower == toLowerCase(Get(Arg))
                   Found(k) == includes(lower, MIX_KEYWORD_ORDER[k])
               IN  /\ \A k \in DOMAIN MIX_KEYWORD_ORDER :
                          Found(k) /\ (\A h \in 1..(k - 1) : ~Found(h))
                              => Returned = Some(MIX_VERSION_MAP[k][2])
                   /\ (\A k \in DOMAIN MIX_KEYWORD_ORDER : ~Found(k))
                          => Returned = None
        /\ Arg = Some(MIX_RADIO_EDIT) => Returned = Some("RadioEdit")

\* "Live Remix" contains live and remix, and gives the earlier keyword's Remix
C12_LiveRemixGivesRemix ==
    /\ Called("mapMixVersion")
    /\ Arg = Some(MIX_LIVE_REMIX)
    /\ Returned = Some("Remix")

----------------------------------------------------------------------------
(* C13: mapRoleToDdex.                                                     *)

ROLE_CONSTRUCTOR == << "c", "o", "n", "s", "t", "r", "u", "c", "t", "o", "r" >>
RoleOfKey(key) ==
    ROLE_TO_DDEX_MAP[CHOOSE k \in DOMAIN ROLE_TO_DDEX_MAP :
                         ROLE_TO_DDEX_MAP[k][1] = key][2]

\* C13: mapRoleToDdex returns the table's role for a string that is a key of
\* the role table, and "Contributor" for every other string: unknown roles,
\* the empty string, keys in another case or with extra characters.
C13_ExactKeyElseContributor ==
    Called("mapRoleToDdex") =>
        IF Arg \in RoleKeys THEN Returned = RoleOfKey(Arg)
        ELSE Returned = "Contributor"

\* the role "constructor" is no key of the table, and the lookup returns the
\* member every object inherits instead of "Contributor"
C13_ConstructorIsNotContributor ==
    /\ Called("mapRoleToDdex")
    /\ Arg = ROLE_CONSTRUCTOR
    /\ Arg \notin RoleKeys
    /\ Returned # "Contributor"

----------------------------------------------------------------------------
(* C14: mapExplicitStatus.                                                 *)

ExplicitKeys == { EXPLICIT_STATUS_MAP[k][1] : k \in DOMAIN EXPLICIT_STATUS_MAP }
WarningOfKey(key) ==
    EXPLICIT_STATUS_MAP[CHOOSE k \in DOMAIN EXPLICIT_STATUS_MAP :
                            EXPLICIT_STATUS_MAP[k][1] = key][2]

\* C14: mapExplicitStatus returns, for an input that is a key of the status
\* table in any letter case, that key's ParentalWarningType, and no value
\* for an absent input or any other value.
C14_CaseInsensitiveElseNoValue ==
    Called("mapExplicitStatus") =>
        IF IsSome(Arg) /\ toLowerCase(Get(Arg)) \in ExplicitKeys
        THEN Returned = Some(WarningOfKey(toLowerCase(Get(Arg))))
        ELSE Returned = None

\* the unspecified status, the table's key '' with the type Unknown, gives
\* no value
C14_UnspecifiedGivesNoValue ==
    /\ Called("mapExplicitStatus")
    /\ Arg = Some(<< >>)
    /\ << >> \in ExplicitKeys
    /\ WarningOfKey(<< >>) = "Unknown"
    /\ Returned = None

----------------------------------------------------------------------------
(* C15: the name precedence chains.                                        *)

\* the first field of the chain that is present and not empty, else the
\* literal
FirstNonEmpty(chain, literal) ==
    LET filled == {k \in DOMAIN chain : IsSome(chain[k]) /\ Get(chain[k]) # ""}
    IN  IF filled = {} THEN literal
        ELSE Get(chain[CHOOSE k \in filled : \A h \in filled : k <= h])

\* C15: a credit's name is stage_name, else artist_name, else name, else
\* "Unknown Artist"; the release artist name is stage_name, else artist_name,
\* else user_name, else "Unknown Artist"; the label name is label_name, else
\* record_label, else "Independent Label"; an absent or empty field falls
\* through, and the resolved name is never empty.
C15_NamePrecedence ==
    /\ Called("getArtistName") =>
           /\ Returned = FirstNonEmpty(<< Arg.stage_name, Arg.artist_name, Arg.name >>,
                                       "Unknown Artist")
           /\ Returned # ""
    /\ Called("getReleaseArtistName") =>
           /\ Returned = FirstNonEmpty(<< Arg.stage_name, Arg.artist_name,
                                          Arg.user_name >>, "Unknown Artist")
           /\ Returned # ""
    /\ Called("getLabelName") =>
           /\ Returned = FirstNonEmpty(<< Arg.label_name, Arg.record_label >>,
                                       "Independent Label")
           /\ Returned # ""

\* an empty stage name falls through to the legal name although a plain name
\* exists too
C15_EmptyStageNameFallsThrough ==
    /\ Called("getArtistName")
    /\ Arg.stage_name = Some("")
    /\ Arg.artist_name = Some("Ana Voz")
    /\ Arg.name = Some("ana")
    /\ Returned = "Ana Voz"

----------------------------------------------------------------------------
(* The reduced generator: a second generateDdexXml over the reduced        *)
(* Release, Track and Artist records, with a flat artist list and two      *)
(* deals.  Its variable doc is what the header chain returns, the node of  *)
(* the last ele of the chain.                                              *)

\* artists.filter((a) => a.role === 'MainArtist' && !a.trackId)
getMainArtists(artists) ==
    LET Main(a) == a.role = "MainArtist" /\ ~TruthyNum(a.trackId)
    IN  SelectSeq(artists, Main)

\* artists.filter((a) => a.trackId === trackId)
getTrackArtists(artists, trackId) ==
    LET OfTrack(a) == a.trackId = Some(trackId)
    IN  SelectSeq(artists, OfTrack)

\* the chain of the header, ending with ele('ResourceList')
ReducedHeaderCalls(mid, sent, release) ==
    << EA("ern:NewReleaseMessage",
          { << "xmlns:ern", "http://ddex.net/xml/ern/38" >>,
            << "xmlns:xs", "http://www.w3.org/2001/XMLSchema-instance" >>,
            << "MessageSchemaVersionId", "ern/382" >>,
            << "LanguageAndScriptCode", "en" >> }),
       E("MessageHeader"),
       E("MessageThreadId"), T(Lit(mid)), U,
       E("MessageId"), T(Lit(mid)), U,
       E("MessageCreatedDateTime"), T(Lit(sent)), U,
       E("MessageSender"),
       E("PartyId"), T(Lit("DPID:PADPIDA2014071501Y")), U,
       E("PartyName"),
       E("FullName"), T(Or(release.labelName, Lit("Independent Label"))), U,
       U,
       U,
       E("MessageRecipient"),
       E("PartyId"), T(Lit("DPID:PADPIDA2013011301U")), U,
       E("PartyName"),
       E("FullName"), T(Lit("Digital Service Provider")), U,
       U,
       U,
       U,
       E("ResourceList") >>

\* release.releaseDate.split('-')[0]
ReducedYear(release) == Str(split(release.releaseDate, "-")[1])

ReducedArtistEntry(at, tag, roleTag, artist) ==
    At(at, << E(tag),
              E("PartyName"),
              E("FullName"), T(artist.name), U,
              U,
              E(roleTag), T(Lit(artist.role)), U,
              U >>)

\* one iteration of tracks.forEach: the document after the sound recording
ReducedSoundRecording(ns, d, release, track, artists) ==
    LET trackArtists == getTrackArtists(artists, track.id)
        primaryArtists == IF Len(trackArtists) > 0 THEN trackArtists
                          ELSE getMainArtists(artists)
        soundRecording ==
            Chain(Builder(ns, d),
                  << E("SoundRecording"),
                     E("ResourceReference"), T(Lit(ResourceRef(track))), U,
                     E("Type"), T(Lit("MusicalWorkSoundRecording")), U,
                     E("ResourceId"),
                     E("ISRC"), T(track.isrc), U,
                     U >>)
        sr == soundRecording.cur
    IN  Run(soundRecording.nodes,
            << At(sr, << E("DisplayTitleText"), T(track.title), U >>) >>
            \o [k \in DOMAIN primaryArtists |->
                   ReducedArtistEntry(sr, "DisplayArtist", "ArtistRole",
                                      primaryArtists[k])]
            \o [k \in DOMAIN primaryArtists |->
                   ReducedArtistEntry(sr, "Contributor", "Role", primaryArtists[k])]
            \o When(Truthy(release.pLine),
                 << At(sr, << E("PLine"),
                              E("Year"), T(Lit(ReducedYear(release))), U,
                              E("PLineText"), T(release.pLine), U,
                              U >>) >>)
            \o When(Truthy(track.genre),
                 << At(sr, << E("Genre"),
                              E("GenreText"), T(track.genre), U,
                              U >>) >>)
            \o << At(sr, << E("Duration"), T(track.duration), U >>),
                  At(sr, << E("TechnicalSoundRecordingDetails"),
                            E("TechnicalResourceDetailsReference"),
                            T(Lit("T" \o ToString(track.id))), U,
                            E("AudioCodecType"), T(Lit("MP3")), U,
                            E("File"),
                            E("URI"), T(track.audioFileUrl), U,
                            U,
                            U >>),
                  At(sr, << U >>) >>)

\* the cover image and the doc.up() after it
ReducedImage(ns, d, release) ==
    Run(ns,
        When(Truthy(release.coverArtUrl),
          << At(d, << E("Image"),
                      E("ResourceReference"), T(Lit("R1")), U,
                      E("Type"), T(Lit("FrontCoverImage")), U,
                      E("ResourceId"),
                      E("ProprietaryId"), T(Lit("IMG" \o ToString(release.id))), U,
                      U,
                      E("TechnicalImageDetails"),
                      E("TechnicalResourceDetailsReference"), T(Lit("T_IMG1")), U,
                      E("ImageCodecType"), T(Lit("JPEG")), U,
                      E("ImageHeight"), T(Lit("3000")), U,
                      E("ImageWidth"), T(Lit("3000")), U,
                      E("File"),
                      E("URI"), T(release.coverArtUrl), U,
                      U,
                      U,
                      U >>) >>)
        \o << At(d, << U >>) >>)

\* the genre of the release, run on releaseList
ReducedReleaseGenre(rel, tracks) ==
    When(Len(tracks) > 0 /\ Truthy(tracks[1].genre),
         << At(rel, << E("Genre"), E("GenreText"), T(tracks[1].genre), U, U >>) >>)

\* the document after the release list
ReducedReleaseList(ns, d, release, tracks, artists) ==
    LET mainArtists == getMainArtists(artists)
        releaseList ==
            Chain(Builder(ns, d),
                  << E("ReleaseList"),
                     E("Release"),
                     E("ReleaseReference"), T(Lit(ReleaseRef(release))), U,
                     E("ReleaseType"), T(release.releaseType), U,
                     E("ReleaseId"),
                     E("ICPN"), T(release.upc), U,
                     U >>)
        rel == releaseList.cur
    IN  Run(releaseList.nodes,
            << At(rel, << E("DisplayTitleText"), T(release.title), U >>) >>
            \o [k \in DOMAIN mainArtists |->
                   ReducedArtistEntry(rel, "DisplayArtist", "ArtistRole",
                                      mainArtists[k])]
            \o << At(rel, << E("AdministratingRecordCompany"),
                             E("PartyName"),
                             E("FullName"), T(release.labelName), U,
                             U,
                             U >>) >>
            \o When(Truthy(release.cLine),
                 << At(rel, << E("CLine"),
                               E("Year"), T(Lit(ReducedYear(release))), U,
                               E("CLineText"), T(release.cLine), U,
                               U >>) >>)
            \o When(Truthy(release.pLine),
                 << At(rel, << E("PLine"),
                               E("Year"), T(Lit(ReducedYear(release))), U,
                               E("PLineText"), T(release.pLine), U,
                               U >>) >>)
            \o ReducedReleaseGenre(rel, tracks)
            \o << At(rel, << E("ReleaseDate"),
                             T(Lit(Str(formatDate(release.releaseDate)))), U >>) >>
            \o [k \in DOMAIN tracks |->
                   At(rel, << E("ResourceReference"),
                              T(Lit(ResourceRef(tracks[k]))), U >>)]
            \o When(Truthy(release.coverArtUrl),
                 << At(rel, << E("ResourceReference"), T(Lit("R1")), U >>) >>)
            \o << At(rel, << U, U >>) >>)

\* the document after the deal list
ReducedDealList(ns, d, release) ==
    LET dealList == Chain(Builder(ns, d), << E("DealList"), E("ReleaseDeal") >>)
        dl == dealList.cur
        start == Str(formatDate(release.releaseDate))
    IN  Run(dealList.nodes,
            << At(dl, << E("DealReleaseReference"), T(Lit(ReleaseRef(release))), U >>),
               Deal(dl, "SubscriptionModel", "OnDemandStream", start, None),
               Deal(dl, "PayAsYouGoModel", "PermanentDownload", start, Lit("0.99")),
               At(dl, << U, U >>) >>)

\* the inputs of the reduced generator
ReducedBaseRelease ==
    [ id |-> 7, title |-> Some("Primer Disco"), releaseType |-> Some("Album"),
      labelName |-> Some("Sello Uno"), releaseDate |-> DATE_PLAIN,
      upc |-> Some("0733581234567"), coverArtUrl |-> None,
      cLine |-> None, pLine |-> None ]
ReducedTrack(id, genre) ==
    [ id |-> id, releaseId |-> 7, title |-> Some("Song " \o ToString(id)),
      duration |-> Some("PT3M45S"), isrc |-> Some("USRC1760000" \o ToString(id)),
      audioFileUrl |-> Some("https://cdn.example/audio.mp3"),
      trackNumber |-> id, genre |-> genre ]
ReducedArtist(id, name, role, trackId) ==
    [ id |-> id, name |-> Some(name), role |-> role, releaseId |-> Some(7),
      trackId |-> trackId ]
ReducedInput(release, tracks, artists) ==
    [release |-> release, tracks |-> tracks, artists |-> artists]

ReducedGenres == {None, Some(""), Some("Rock"), Some("Pop")}
ReducedTrackLists ==
    UNION { [1..n -> { ReducedTrack(i, g) : i \in 1..2, g \in ReducedGenres }] :
              n \in 0..MaxTracks }
ReducedArtistLists ==
    { << >>,
      << ReducedArtist(1, "Los Base", "MainArtist", None) >>,
      << ReducedArtist(1, "Los Base", "MainArtist", None),
         ReducedArtist(2, "Ana Voz", "FeaturedArtist", Some(1)) >>,
      << ReducedArtist(3, "El Uno", "MainArtist", Some(1)),
         ReducedArtist(4, "DJ Dos", "Producer", None) >> }
ReducedReleases ==
    { [ReducedBaseRelease EXCEPT !.id = i, !.releaseDate = d, !.coverArtUrl = c,
                                 !.cLine = cl, !.pLine = pl, !.labelName = l] :
        i \in {1, 7}, d \in {DATE_PLAIN, DATE_ISO, DATE_NO_YEAR},
        c \in OptText("https://cdn.example/cover.jpg"),
        cl \in OptOrEmpty("2024 Sello Uno"), pl \in OptOrEmpty("2024 Los Base"),
        l \in {Some(""), Some("Sello Uno")} }
ReducedInputs ==
    { ReducedInput(r, << ReducedTrack(1, Some("Rock")), ReducedTrack(2, None) >>,
                   << ReducedArtist(1, "Los Base", "MainArtist", None) >>) :
        r \in ReducedReleases }
    \cup { ReducedInput([ReducedBaseRelease EXCEPT !.coverArtUrl = c], ts, as) :
             c \in OptText("https://cdn.example/cover.jpg"),
             ts \in ReducedTrackLists, as \in ReducedArtistLists }

IsReduced == "artists" \in DOMAIN releaseData
Artists == releaseData.artists

ReducedInit ==
    /\ releaseData \in ReducedInputs
    /\ pc = "reduced.messageId"
    /\ clock = MillisPerSecond - 1
    /\ random = RANDOM_DRAW
    /\ messageId = ""
    /\ sentDateTime = ""
    /\ nodes = << >>
    /\ doc = 0
    /\ resourceList = 0
    /\ trackIndex = 0
    /\ result = "none"
    /\ duration = None
    /\ isoDuration = None
    /\ call = None
    /\ value = None
    /\ NoRequest

\* const messageId = generateMessageId()
ReducedGenerateMessageId ==
    /\ pc = "reduced.messageId"
    /\ messageId' = Str(generateMessageId(clock, random))
    /\ pc' = "reduced.sentDateTime"
    /\ UNCHANGED << releaseData, clock, random, sentDateTime, nodes, doc,
                    resourceList, trackIndex, result, durVars, callVars, httpVars >>

\* time passes between the two clock reads
ReducedTick ==
    /\ pc = "reduced.sentDateTime"
    /\ clock < MillisPerSecond - 1 + MaxTicks
    /\ clock' = clock + 1
    /\ UNCHANGED << releaseData, pc, random, messageId, sentDateTime, nodes, doc,
                    resourceList, trackIndex, result, durVars, callVars, httpVars >>

\* const sentDateTime = new Date().toISOString()
ReducedReadSentDateTime ==
    /\ pc = "reduced.sentDateTime"
    /\ sentDateTime' = Str(toISOString(clock))
    /\ pc' = "reduced.header"
    /\ UNCHANGED << releaseData, clock, random, messageId, nodes, doc,
                    resourceList, trackIndex, result, durVars, callVars, httpVars >>

\* const doc = create(...)....ele('ResourceList')
ReducedBuildHeader ==
    /\ pc = "reduced.header"
    /\ LET b == Chain(Builder(<< >>, 0),
                      ReducedHeaderCalls(messageId, sentDateTime, Release))
       IN  /\ doc' = b.cur
           /\ nodes' = b.nodes
    /\ trackIndex' = 1
    /\ pc' = "reduced.tracks"
    /\ UNCHANGED << releaseData, clock, random, messageId, sentDateTime,
                    resourceList, result, durVars, callVars, httpVars >>

\* one iteration of tracks.forEach
ReducedAddSoundRecording ==
    /\ pc = "reduced.tracks"
    /\ trackIndex <= Len(Tracks)
    /\ nodes' = ReducedSoundRecording(nodes, doc, Release, Tracks[trackIndex], Artists)
    /\ trackIndex' = trackIndex + 1
    /\ UNCHANGED << releaseData, pc, clock, random, messageId, sentDateTime, doc,
                    resourceList, result, durVars, callVars, httpVars >>

\* the cover image, after the last track, and doc.up()
ReducedAddImage ==
    /\ pc = "reduced.tracks"
    /\ trackIndex > Len(Tracks)
    /\ nodes' = ReducedImage(nodes, doc, Release)
    /\ pc' = "reduced.releaseList"
    /\ UNCHANGED << releaseData, clock, random, messageId, sentDateTime, doc,
                    resourceList, trackIndex, result, durVars, callVars, httpVars >>

\* the Release list
ReducedBuildReleaseList ==
    /\ pc = "reduced.releaseList"
    /\ nodes' = ReducedReleaseList(nodes, doc, Release, Tracks, Artists)
    /\ pc' = "reduced.dealList"
    /\ UNCHANGED << releaseData, clock, random, messageId, sentDateTime, doc,
                    resourceList, trackIndex, result, durVars, callVars, httpVars >>

\* the deal list
ReducedBuildDealList ==
    /\ pc = "reduced.dealList"
    /\ nodes' = ReducedDealList(nodes, doc, Release)
    /\ pc' = "reduced.relationships"
    /\ UNCHANGED << releaseData, clock, random, messageId, sentDateTime, doc,
                    resourceList, trackIndex, result, durVars, callVars, httpVars >>

\* the Release relationships and doc.up()
ReducedBuildReleaseRelationships ==
    /\ pc = "reduced.relationships"
    /\ nodes' = ReleaseRelationships(nodes, doc, Release, Tracks)
    /\ pc' = "reduced.end"
    /\ UNCHANGED << releaseData, clock, random, messageId, sentDateTime, doc,
                    resourceList, trackIndex, result, durVars, callVars, httpVars >>

\* return doc.end({ prettyPrint: true }), the whole document
ReducedReturn ==
    /\ pc = "reduced.end"
    /\ result' = "xml"
    /\ pc' = "returned"
    /\ UNCHANGED << releaseData, clock, random, messageId, sentDateTime, nodes,
                    doc, resourceList, trackIndex, durVars, callVars, httpVars >>

ReducedNext ==
    \/ ReducedGenerateMessageId
    \/ ReducedTick
    \/ ReducedReadSentDateTime
    \/ ReducedBuildHeader
    \/ ReducedAddSoundRecording
    \/ ReducedAddImage
    \/ ReducedBuildReleaseList
    \/ ReducedBuildDealList
    \/ ReducedBuildReleaseRelationships
    \/ ReducedReturn

ReducedSpec == ReducedInit /\ [][ReducedNext]_vars

\* both generators, each on its own inputs
BothInit == Init \/ ReducedInit
BothNext == Next \/ ReducedNext
BothSpec == BothInit /\ [][BothNext]_vars

----------------------------------------------------------------------------
(* C16: the genres of the release.                                         *)

\* the Release element of the document
ReleaseNode == Tagged(nodes, "Release")[1]
\* the GenreText of every Genre child of p, in document order
GenreTexts(ns, p) ==
    LET gs == ChildrenTagged(ns, p, "Genre")
    IN  [k \in DOMAIN gs |-> TextOfChild(ns, gs[k], "GenreText")]
\* the genres a track carries, in either generator's record
GenresOfTrack(t) ==
    (IF IsReduced THEN {t.genre} ELSE {t.main_genre_en, t.secondary_genre_en})
        \ {None, Some("")}
\* the genre the release-level test reads
LeadGenre(t) == IF IsReduced THEN t.genre ELSE t.main_genre_en

\* C16: every Genre of the Release element is a genre of the first track of
\* the input list; when the first track has no genre the Release has no
\* Genre, whatever genres the later tracks have.
C16_ReleaseGenreFromFirstTrack ==
    result = "xml" =>
        LET texts == GenreTexts(nodes, ReleaseNode)
        IN  /\ \A k \in DOMAIN texts :
                   Len(Tracks) > 0 /\ texts[k] \in GenresOfTrack(Tracks[1])
            /\ Len(Tracks) > 0 /\ GenresOfTrack(Tracks[1]) = {} => texts = << >>
            /\ Len(Tracks) > 0 /\ Truthy(LeadGenre(Tracks[1])) =>
                   texts # << >> /\ texts[1] = LeadGenre(Tracks[1])

\* the first track has no genre and the second has Rock and Indie: the sound
\* recording of the second carries them, the Release carries none
C16_LaterGenresNotAtReleaseLevel ==
    /\ result = "xml"
    /\ ~IsReduced
    /\ Len(Tracks) = 2
    /\ GenresOfTrack(Tracks[1]) = {}
    /\ GenresOfTrack(Tracks[2]) = {Some("Rock"), Some("Indie")}
    /\ GenreTexts(nodes, ReleaseNode) = << >>

----------------------------------------------------------------------------
(* C17: the deal catalog.                                                  *)

\* the text of the tag element below the first via child of p
TextBelow(ns, p, via, tag) ==
    LET c == ChildrenTagged(ns, p, via)
    IN  IF c = << >> THEN None ELSE TextOfChild(ns, c[1], tag)
\* <<model, use type, territory, start date, unit price>> of every Deal of p
DealStanzas(ns, p) ==
    LET deals == ChildrenTagged(ns, p, "Deal")
    IN  [k \in DOMAIN deals |->
            LET terms == ChildrenTagged(ns, deals[k], "DealTerms")[1]
            IN  << TextOfChild(ns, terms, "CommercialModelType"),
                   TextOfChild(ns, terms, "UseType"),
                   TextOfChild(ns, terms, "TerritoryCode"),
                   TextBelow(ns, terms, "ValidityPeriod", "StartDate"),
                   TextBelow(ns, terms, "PriceInformation",
                             "BulkOrderWholesalePricePerUnit") >>]
\* the release date as given
ReleaseDate == IF IsReduced THEN Release.releaseDate ELSE Get(Release.date)
\* the date up to its first "T", the whole date without one
DayOf(date) ==
    LET ts == {k \in DOMAIN date : date[k] = "T"}
    IN  IF ts = {} THEN date
        ELSE SubSeq(date, 1, (CHOOSE k \in ts : \A h \in ts : k <= h) - 1)
\* YYYY-MM-DD, alone or followed by "T" and a time
StartsWithDay(date) ==
    /\ Len(date) >= 10
    /\ \A k \in {1, 2, 3, 4, 6, 7, 9, 10} : IsDigit(date[k])
    /\ date[5] = "-" /\ date[8] = "-"
    /\ Len(date) > 10 => date[11] = "T"
FullCatalog(start) ==
    << << Some("SubscriptionModel"), Some("OnDemandStream"), Some("Worldwide"),
          Some(start), None >>,
       << Some("PayAsYouGoModel"), Some("PermanentDownload"), Some("Worldwide"),
          Some(start), Some("0.99") >>,
       << Some("AdvertisementSupportedModel"), Some("OnDemandStream"),
          Some("Worldwide"), Some(start), None >>,
       << Some("SubscriptionModel"), Some("ConditionalDownload"), Some("Worldwide"),
          Some(start), None >>,
       << Some("AdvertisementSupportedModel"), Some("UserMadeClip"),
          Some("Worldwide"), Some(start), None >> >>

----------------------------------------------------------------------------
(* C18: the titles of the release.                                         *)

\* <<TitleText, TitleType>> of every DisplayTitle child of p
DisplayTitles(ns, p) ==
    LET ts == ChildrenTagged(ns, p, "DisplayTitle")
    IN  [k \in DOMAIN ts |->
            << TextOfChild(ns, ts[k], "TitleText"),
               TextOfChild(ns, ts[k], "TitleType") >>]
Present(o) == IsSome(o) /\ Get(o) # ""

\* C18: the DisplayTitleText of the Release is the version title when there
\* is one, else the alternate title; the Release has a DisplayTitle of type
\* AlternativeTitle, holding the alternate title, exactly when there is an
\* alternate title and it differs from the title chosen.
C18_DisplayAndAlternativeTitle ==
    result = "xml" =>
        LET version == Release.version_title
            alt == Release.alt_title
            chosen == IF Present(version) THEN version ELSE alt
            shown == Texts(nodes, ChildrenTagged(nodes, ReleaseNode, "DisplayTitleText"))
        IN  /\ shown = IF Present(chosen) THEN << chosen >> ELSE << >>
            /\ DisplayTitles(nodes, ReleaseNode) =
                   IF Present(alt) /\ alt # chosen
                   THEN << << alt, Some("AlternativeTitle") >> >>
                   ELSE << >>

\* version and alternate title are the same text: no AlternativeTitle
C18_EqualTitlesGiveNoAlternative ==
    /\ result = "xml"
    /\ Release.version_title = Some("Primer Disco")
    /\ Release.alt_title = Some("Primer Disco")
    /\ DisplayTitles(nodes, ReleaseNode) = << >>

----------------------------------------------------------------------------
(* C19: the copyright lines.                                               *)

\* <<Year, text>> of every child of p with the given tag
CopyrightLines(ns, p, tag, textTag) ==
    LET ls == ChildrenTagged(ns, p, tag)
    IN  [k \in DOMAIN ls |->
            << TextOfChild(ns, ls[k], "Year"), TextOfChild(ns, ls[k], textTag) >>]
\* the label's text when there is one, else the release's own
CopyrightText(labelText, ownText) == IF Present(labelText) THEN labelText ELSE ownText
\* the explicit year when there is one, else the year the release date
\* begins with
CopyrightYear(explicit, date) ==
    IF TruthyNum(explicit) THEN Str(NatToString(Get(explicit)))
    ELSE Str(DigitPrefix(Get(date)))
ExpectedLines(labelText, ownText, explicit, date) ==
    IF Present(CopyrightText(labelText, ownText))
    THEN << << Some(CopyrightYear(explicit, date)),
               CopyrightText(labelText, ownText) >> >>
    ELSE << >>

\* C19: the Release has a CLine (a PLine) exactly when there is copyright
\* text, the label's before the release's own; its Year is the explicit
\* year when set, else the year of the release date; the PLine of every
\* sound recording is the PLine of the Release.
C19_CopyrightLinesAndYears ==
    result = "xml" =>
        /\ CopyrightLines(nodes, ReleaseNode, "CLine", "CLineText") =
               ExpectedLines(Release.label_cline, Release.cline,
                             Release.cline_year, Release.date)
        /\ CopyrightLines(nodes, ReleaseNode, "PLine", "PLineText") =
               ExpectedLines(Release.label_pline, Release.pline,
                             Release.pline_year, Release.date)
        /\ \A k \in DOMAIN Tracks :
               CopyrightLines(nodes, SoundRecordingNode(k), "PLine", "PLineText") =
                   CopyrightLines(nodes, ReleaseNode, "PLine", "PLineText")

\* an empty release date, a PLine text and no explicit year: the PLine of the
\* Release and of the sound recording carry the Year NaN
C19_EmptyDateGivesNaNYear ==
    /\ result = "xml"
    /\ Release.date = Some(<< >>)
    /\ Release.label_pline = Some("(P) Sello Uno")
    /\ Release.pline_year = None
    /\ CopyrightLines(nodes, ReleaseNode, "PLine", "PLineText") =
           << << Some("NaN"), Some("(P) Sello Uno") >> >>
    /\ CopyrightLines(nodes, SoundRecordingNode(1), "PLine", "PLineText") =
           << << Some("NaN"), Some("(P) Sello Uno") >> >>

----------------------------------------------------------------------------
(* C20: the cover image.                                                   *)

\* the location of the cover image, in either generator's record
Cover == IF IsReduced THEN Release.coverArtUrl ELSE Release.front_pic
\* the label's dimension string; the reduced record has none
Dimensions == IF IsReduced THEN None ELSE FrontArtDimensions(Release)
\* a string "WxH": two parts around one "x"
IsWidthByHeight(o) == Present(o) /\ Len(split(Get(o), "x")) = 2
ExpectedWidth ==
    IF IsWidthByHeight(Dimensions) THEN Str(trim(split(Get(Dimensions), "x")[1]))
    ELSE "3000"
ExpectedHeight ==
    IF IsWidthByHeight(Dimensions) THEN Str(trim(split(Get(Dimensions), "x")[2]))
    ELSE "3000"
TechnicalImageDetails(image) == ChildrenTagged(nodes, image, "TechnicalImageDetails")[1]

\* C20: a returned document has one Image when the release has a cover image
\* and none otherwise; the Image has the type FrontCoverImage, the
\* proprietary id IMG<release.id>, the location of the cover, and one
\* ImageWidth and one ImageHeight: W and H of the label's "WxH" string when
\* there is one, else 3000 and 3000.
C20_OneImageWithDimensions ==
    result = "xml" =>
        LET images == Tagged(nodes, "Image")
        IN  /\ Len(images) = IF Present(Cover) THEN 1 ELSE 0
            /\ \A k \in DOMAIN images :
                   LET details == TechnicalImageDetails(images[k])
                   IN  /\ TextOfChild(nodes, images[k], "Type") = Some("FrontCoverImage")
                       /\ TextBelow(nodes, images[k], "ResourceId", "ProprietaryId")
                              = Some("IMG" \o ToString(Release.id))
                       /\ TextBelow(nodes, details, "File", "URI") = Cover
                       /\ Texts(nodes, ChildrenTagged(nodes, details, "ImageWidth"))
                              = << Some(ExpectedWidth) >>
                       /\ Texts(nodes, ChildrenTagged(nodes, details, "ImageHeight"))
                              = << Some(ExpectedHeight) >>

\* the label's dimension string is "1400": the Image has neither an
\* ImageWidth nor an ImageHeight
C20_OnePartGivesNoDimensions ==
    /\ result = "xml"
    /\ ~IsReduced
    /\ Present(Cover)
    /\ Dimensions = Some(DIMS_ONE)
    /\ Len(Tagged(nodes, "Image")) = 1
    /\ Tagged(nodes, "ImageWidth") = << >>
    /\ Tagged(nodes, "ImageHeight") = << >>

----------------------------------------------------------------------------
(* C25: the blocks of the reduced generator's document.                    *)

\* C25: in every document the reduced generator returns, MessageHeader,
\* ResourceList, ReleaseList, DealList and, when emitted,
\* ReleaseRelationships are the children of the root element, in that
\* order, and none of the last three lies inside ResourceList.
C25_ReducedBlocksAreSiblings ==
    result = "xml" /\ IsReduced =>
        /\ Tags(nodes, Children(nodes, Root)) =
               << "MessageHeader", "ResourceList", "ReleaseList", "DealList" >>
                   \o (IF Len(Tracks) > 1 THEN << "ReleaseRelationships" >> ELSE << >>)
        /\ \A i \in DOMAIN nodes :
               nodes[i].tag \in {"ReleaseList", "DealList", "ReleaseRelationships"}
                   => nodes[nodes[i].parent].tag # "ResourceList"

\* a document of the reduced generator for two tracks whose ReleaseList,
\* DealList and ReleaseRelationships are children of ResourceList
C25_BlocksInsideResourceList ==
    /\ result = "xml"
    /\ IsReduced
    /\ Len(Tracks) = 2
    /\ Tags(nodes, Children(nodes, Root)) = << "MessageHeader", "ResourceList" >>
    /\ \A tag \in {"ReleaseList", "DealList", "ReleaseRelationships"} :
           \E i \in DOMAIN nodes :
               /\ nodes[i].tag = tag
               /\ nodes[nodes[i].parent].tag = "ResourceList"

----------------------------------------------------------------------------
(* C30: the content of the message header.                                 *)

MessageHeaderNode == Tagged(nodes, "MessageHeader")[1]
HeaderBlocks ==
    << "MessageThreadId", "MessageId", "MessageCreatedDateTime", "MessageSender",
       "MessageRecipient" >>
ControlTypes ==
    Texts(nodes, ChildrenTagged(nodes, MessageHeaderNode, "MessageControlType"))

\* C30: the MessageHeader of a returned document has a MessageControlType,
\* with the value TestMessage, exactly when the release has a non-empty
\* catalog number, and holds nothing besides it but the thread id, the
\* message id, the creation timestamp, the sender and the recipient.
C30_HeaderContent ==
    result = "xml" =>
        /\ ControlTypes =
               IF Present(Release.catalog) THEN << Some("TestMessage") >> ELSE << >>
        /\ Tags(nodes, Children(nodes, MessageHeaderNode)) =
               HeaderBlocks
                   \o (IF Present(Release.catalog) THEN << "MessageControlType" >>
                       ELSE << >>)

\* the MessageControlType alone follows the catalog number
C30_ControlTypeIffCatalog ==
    result = "xml" =>
        ControlTypes =
            IF Present(Release.catalog) THEN << Some("TestMessage") >> ELSE << >>

\* a release without catalog number whose header also holds the resource
\* list, the release list and the deal list
C30_HeaderHoldsLaterBlocks ==
    /\ result = "xml"
    /\ Release.catalog = None
    /\ Len(Tracks) = 1
    /\ Tags(nodes, Children(nodes, MessageHeaderNode)) =
           HeaderBlocks \o << "ResourceList", "ReleaseList", "DealList" >>

----------------------------------------------------------------------------
(* C28: the message id and the creation timestamp.                         *)

\* the values the clock can have at a read
ClockReads == (MillisPerSecond - 1)..(MillisPerSecond - 1 + MaxTicks)
HeaderText(tag) == TextOfChild(nodes, MessageHeaderNode, tag)

\* C28: in every returned document MessageThreadId is MessageId, and the
\* time in MessageId and MessageCreatedDateTime are readings of the clock
\* within the same second.
C28_IdAndTimestampSameSecond ==
    result = "xml" =>
        /\ HeaderText("MessageThreadId") = HeaderText("MessageId")
        /\ \E idRead, stampRead \in ClockReads :
               /\ HeaderText("MessageId") = Some(Str(generateMessageId(idRead, random)))
               /\ HeaderText("MessageCreatedDateTime") = Some(Str(toISOString(stampRead)))
               /\ idRead \div MillisPerSecond = stampRead \div MillisPerSecond

\* the thread id is the message id in every returned document
C28_ThreadIdIsMessageId ==
    result = "xml" => HeaderText("MessageThreadId") = HeaderText("MessageId")

\* the second changes between the two reads: the id carries the second
\* before the one of the creation timestamp
C28_SecondChangesBetweenReads ==
    /\ result = "xml"
    /\ HeaderText("MessageId") =
           Some(Str(generateMessageId(MillisPerSecond - 1, random)))
    /\ HeaderText("MessageCreatedDateTime") = Some(Str(toISOString(MillisPerSecond)))

----------------------------------------------------------------------------
(* C27: the reference identifiers of a document.                           *)

\* the ResourceReference of every SoundRecording and Image, in document order
ResourceNodes ==
    LET IsResource(i) == nodes[i].tag \in {"SoundRecording", "Image"}
    IN  SelectSeq(Indices(nodes), IsResource)
ResourceNodeRefs ==
    [k \in DOMAIN ResourceNodes |->
        TextOfChild(nodes, ResourceNodes[k], "ResourceReference")]
ReleaseReference == TextOfChild(nodes, ReleaseNode, "ReleaseReference")
\* the ResourceReference entries of the Release
ReleaseResourceRefs ==
    Texts(nodes, ChildrenTagged(nodes, ReleaseNode, "ResourceReference"))
DistinctTrackIds ==
    \A j, k \in DOMAIN Tracks : j # k => Tracks[j].id # Tracks[k].id

\* C27: in a returned document for tracks with distinct ids the references
\* of the sound recordings, of the cover image and of the release are
\* pairwise distinct, and every ResourceReference entry of the Release is
\* the reference of exactly one resource and not the release's own.
C27_ReferencesPairwiseDistinct ==
    result = "xml" /\ DistinctTrackIds =>
        /\ \A j, k \in DOMAIN ResourceNodeRefs :
               j # k => ResourceNodeRefs[j] # ResourceNodeRefs[k]
        /\ \A k \in DOMAIN ResourceNodeRefs : ResourceNodeRefs[k] # ReleaseReference
        /\ \A r \in DOMAIN ReleaseResourceRefs :
               /\ ReleaseResourceRefs[r] # ReleaseReference
               /\ Cardinality({k \in DOMAIN ResourceNodeRefs :
                                   ResourceNodeRefs[k] = ReleaseResourceRefs[r]}) = 1

\* the references of the resources alone are pairwise distinct, and every
\* entry of the Release denotes exactly one of them
C27_ResourcesPairwiseDistinct ==
    result = "xml" /\ DistinctTrackIds =>
        /\ \A j, k \in DOMAIN ResourceNodeRefs :
               j # k => ResourceNodeRefs[j] # ResourceNodeRefs[k]
        /\ \A r \in DOMAIN ReleaseResourceRefs :
               Cardinality({k \in DOMAIN ResourceNodeRefs :
                                ResourceNodeRefs[k] = ReleaseResourceRefs[r]}) = 1

\* the release with id 1 and a cover image: the Image and the Release both
\* carry the reference R1
C27_CoverAndReleaseShareR1 ==
    /\ result = "xml"
    /\ Release.id = 1
    /\ Present(Release.front_pic)
    /\ ReleaseReference = Some("R1")
    /\ TextOfChild(nodes, Tagged(nodes, "Image")[1], "ResourceReference") = Some("R1")
    /\ \E r \in DOMAIN ReleaseResourceRefs : ReleaseResourceRefs[r] = ReleaseReference

----------------------------------------------------------------------------
(* C21: the document as a function of the input, the clock and the random  *)
(* draw.                                                                   *)

\* tracks.forEach of lines 180-304 from the k-th track on
RECURSIVE SoundRecordings(_, _, _, _, _, _)
SoundRecordings(ns, rl, release, tracks, releaseArtistName, k) ==
    IF Len(ns) = 0 \/ k > Len(tracks) THEN ns
    ELSE SoundRecordings(SoundRecording(ns, rl, release, tracks[k], releaseArtistName),
                         rl, release, tracks, releaseArtistName, k + 1)

\* generateDdexXml for a run that does not throw: the document for the
\* input, the clock at the two reads and the random draw
Document(input, idRead, stampRead, rnd) ==
    LET release == input.release
        tracks == input.tracks
        labelName == getLabelName(release)
        releaseArtistName == getReleaseArtistName(release)
        header == Chain(Builder(<< >>, 0),
                        HeaderCalls(Str(generateMessageId(idRead, rnd)),
                                    Str(toISOString(stampRead)), labelName))
        d == header.cur
        rlist == Chain(Builder(Run(header.nodes, HeaderTail(d, release)), d),
                       << E("ResourceList") >>)
        resources == Image(SoundRecordings(rlist.nodes, rlist.cur, release, tracks,
                                           releaseArtistName, 1),
                           rlist.cur, release)
        released == ReleaseList(resources, d, release, tracks, labelName,
                                releaseArtistName)
    IN  ReleaseRelationships(DealList(released, d, release), d, release, tracks)

\* the document without the texts that carry the clock or the random draw
WithoutIdAndTimestamp(ns) ==
    [i \in DOMAIN ns |->
        IF ns[i].tag \in {"MessageThreadId", "MessageId", "MessageCreatedDateTime"}
        THEN [ns[i] EXCEPT !.text = None] ELSE ns[i]]

\* C21: a returned document is determined by the input, the clock at the two
\* reads and the random draw; the random draw is the suffix of the MessageId
\* and MessageThreadId text and appears nowhere else; apart from these two
\* texts and the creation timestamp the document is the one any clock and any
\* draw give for the input.
C21_DocumentDetermined ==
    result = "xml" =>
        /\ \E idRead, stampRead \in ClockReads :
               /\ nodes = Document(releaseData, idRead, stampRead, random)
               /\ HeaderText("MessageId") =
                      Some(Str(generateMessageId(idRead, << >>))
                               \o Str(toUpperCase(random)))
               /\ HeaderText("MessageThreadId") = HeaderText("MessageId")
               /\ HeaderText("MessageCreatedDateTime") = Some(Str(toISOString(stampRead)))
        /\ WithoutIdAndTimestamp(nodes) =
               WithoutIdAndTimestamp(Document(releaseData, 0, 0, << >>))

\* a run with the other random draw: the id ends with it, and the rest of the
\* document is the one of the first draw
C21_OtherDrawChangesSuffixOnly ==
    /\ result = "xml"
    /\ random = RANDOM_OTHER
    /\ clock = MillisPerSecond - 1
    /\ nodes # Document(releaseData, clock, clock, RANDOM_DRAW)
    /\ WithoutIdAndTimestamp(nodes) =
           WithoutIdAndTimestamp(Document(releaseData, clock, clock, RANDOM_DRAW))
    /\ HeaderText("MessageId") =
           Some(Str(generateMessageId(clock, << >>)) \o "0AB7XM")

----------------------------------------------------------------------------
(* The HTTP application: createApp, apiKeyAuth, the router of              *)
(* routes/ddexRoutes and the repository behind it, serving one request.    *)

\* config.apiKeys, from API_KEYS
ConfiguredApiKeys == {"key-one", "key-two"}

\* a value of the JSON body: undefined, a number or a string
JsUndefined == [type |-> "undefined"]
JsNumber(n) == [type |-> "number", val |-> n]
JsString(s) == [type |-> "string", chars |-> s]
JsTruthy(v) ==
    CASE v.type = "undefined" -> FALSE
      [] v.type = "number" -> v.val # 0
      [] v.type = "string" -> v.chars # << >>
\* String(v), as parseInt applies it to its argument
JsToString(v) ==
    CASE v.type = "undefined" -> << "u", "n", "d", "e", "f", "i", "n", "e", "d" >>
      [] v.type = "number" -> NumberToString(Num(v.val))
      [] v.type = "string" -> v.chars

\* the copied strings among the inputs that consist of white space only
BlankTexts == {" ", "   "}
\* !s || s.trim() === '' for an optional copied string
IsBlank(o) == ~Truthy(o) \/ Get(o) \in BlankTexts

\* res.status(code).json({ error, ... }) or res.status(code).send(xml)
Response(status, body) == [status |-> status, body |-> body]

\* all sequences that hold each row of the set once, no row before one that
\* has to come before it: the rows a query with ORDER BY can return
Orderings(rows, Before(_, _)) ==
    { s \in [1..Cardinality(rows) -> rows] :
        /\ \A i, j \in 1..Cardinality(rows) : i # j => s[i] # s[j]
        /\ \A i, j \in 1..Cardinality(rows) : i < j => ~Before(s[j], s[i]) }

\* SELECT ... FROM releases r ... WHERE r.id = ?
SelectRelease(db, releaseId) ==
    IF IsSome(db.release) /\ Get(db.release).id = releaseId
    THEN << Get(db.release) >> ELSE << >>
\* SELECT ... FROM release_tracks t ... WHERE t.release_id = ? ORDER BY t.number ASC
SelectTracks(db, releaseId) ==
    LET ByNumber(a, b) == a.number < b.number
    IN  Orderings({t \in db.tracks : t.release_id = releaseId}, ByNumber)
\* SELECT ... FROM release_track_artists ta ... WHERE ta.release_track_id IN (...)
\* ORDER BY ta.release_track_id, ta.id
SelectTrackArtists(db, trackIds) ==
    LET ByTrackThenId(a, b) ==
            \/ a.release_track_id < b.release_track_id
            \/ a.release_track_id = b.release_track_id /\ a.id < b.id
    IN  Orderings({a \in db.credits : a.release_track_id \in trackIds}, ByTrackThenId)

\* a variant that keeps only the last credit of each track
RECURSIVE groupArtistsByTrackLastOnly(_, _, _)
groupArtistsByTrackLastOnly(artists, k, grouped) ==
    IF k > Len(artists) THEN grouped
    ELSE LET trackId == artists[k].release_track_id
         IN  groupArtistsByTrackLastOnly(
                 artists, k + 1,
                 (trackId :> << artists[k] >>) @@ grouped)

\* the loop of groupArtistsByTrack from the k-th artist on; grouped is the Map
RECURSIVE groupArtistsByTrack(_, _, _)
groupArtistsByTrack(artists, k, grouped) ==
    IF k > Len(artists) THEN grouped
    ELSE LET trackId == artists[k].release_track_id
             present == IF trackId \in DOMAIN grouped THEN grouped
                        ELSE (trackId :> << >>) @@ grouped
         IN  groupArtistsByTrack(
                 artists, k + 1,
                 [present EXCEPT ![trackId] = Append(@, artists[k])])

\* track.artists = artistsByTrack.get(track.id) || [] for every track
AttachArtists(tracks, artistsByTrack) ==
    [k \in DOMAIN tracks |->
        [tracks[k] EXCEPT !.artists =
            IF tracks[k].id \in DOMAIN artistsByTrack
            THEN Some(artistsByTrack[tracks[k].id]) ELSE Some(<< >>)]]

\* the rows of the database
RELEASE_ID == 7
TrackRow(id, number) ==
    [release_id |-> RELEASE_ID] @@ [BaseTrack(id, number) EXCEPT !.artists = None]
CreditRow(id, trackId, role) ==
    [id |-> id, release_track_id |-> trackId] @@ Credit(id, role)
Database(release, tracks, credits, failing) ==
    [release |-> release, tracks |-> tracks, credits |-> credits, failing |-> failing]
Queries == {"getReleaseById", "getTracksByReleaseId", "getTrackArtists"}
Failing == {"none"} \cup Queries

BaseCredits ==
    { CreditRow(1, 2, Some(ROLE_ARTISTA)), CreditRow(2, 1, Some(ROLE_PRODUCER)),
      CreditRow(3, 2, Some(ROLE_FEATURING)), CreditRow(4, 9, Some(ROLE_ARTISTA)) }
\* track 2 is number 1 and track 1 is number 2
BaseTracks == { TrackRow(1, 2), TrackRow(2, 1) }
BaseDatabase == Database(Some(BaseRelease), BaseTracks, BaseCredits, "none")

OptOrBlank(s) == {None, Some(""), Some("   "), Some(s)}
\* every release row with every failing query; every row set of tracks and
\* credits; tracks with every combination of the validated fields
Databases ==
    { Database(r, BaseTracks, BaseCredits, f) :
        r \in {None} \cup { Some([BaseRelease EXCEPT !.upc = u, !.date = d]) :
                              u \in OptOrBlank("0733581234567"),
                              d \in {None, Some(<< >>), Some(DATE_PLAIN)} },
        f \in Failing }
    \cup { Database(Some(BaseRelease), ts, cs, "none") :
             ts \in SUBSET (BaseTracks \cup {TrackRow(3, 1)}), cs \in SUBSET BaseCredits }
    \cup { Database(Some(BaseRelease),
                    { TrackRow(1, 2),
                      [TrackRow(2, 1) EXCEPT !.isrc = i, !.sound_length = l,
                                             !.sound_url = u] },
                    BaseCredits, "none") :
             i \in OptOrBlank("USRC17600002"),
             l \in {None, Some(<< >>), Some(<< " " >>), Some(LEN_MM_SS)},
             u \in OptOrBlank("tracks/audio.mp3") }

\* the requests
Request(method, path, apiKey, body) ==
    [method |-> method, path |-> path, apiKey |-> apiKey, body |-> body]
\* a body express.json() cannot parse, and the body { releaseId }
MalformedJson == [json |-> "malformed", releaseId |-> JsUndefined]
Body(releaseId) == [json |-> "object", releaseId |-> releaseId]
ReleaseIdValues ==
    { JsUndefined, JsNumber(0), JsNumber(RELEASE_ID), JsNumber(RELEASE_ID + 1),
      JsString(<< >>), JsString(<< "7" >>), JsString(<< "7", "a", "b" >>),
      JsString(<< "a", "b", "c" >>), JsString(<< "-", "7" >>), JsString(<< "0" >>) }
ApiKeyHeaders == {None, Some(""), Some("key-one"), Some("key-two"), Some("KEY-ONE"),
                  Some("key-three")}
Routes ==
    { << "POST", "/api/ddex/generate" >>, << "GET", "/api/ddex/health" >>,
      << "GET", "/health" >>, << "GET", "/api/ddex/generate" >>,
      << "POST", "/generate" >> }
Bodies == {MalformedJson} \cup { Body(v) : v \in ReleaseIdValues }
GenerateRequest(apiKey, releaseId) ==
    Request("POST", "/api/ddex/generate", apiKey, Body(releaseId))

\* every request on the base database; the generate request of a configured
\* key for the release on every database
RequestInputs ==
    { << Request(r[1], r[2], k, b), BaseDatabase >> :
        r \in Routes, k \in ApiKeyHeaders, b \in Bodies }
    \cup { << GenerateRequest(Some("key-one"), JsNumber(RELEASE_ID)), db >> :
             db \in Databases }

\* the paths under the mount point /api/ddex, and what the router sees of them
RouterPath ==
    ("/api/ddex/generate" :> "/generate") @@ ("/api/ddex/health" :> "/health")

RequestInit ==
    /\ \E input \in RequestInputs :
           /\ request = input[1]
           /\ database = input[2]
    /\ stage = "express.json"
    /\ responses = << >>
    /\ queries = << >>
    /\ fetched = None
    /\ handlerCalls = 0
    /\ generatorCalls = 0
    /\ releaseData = None
    /\ pc = "idle"
    /\ clock = MillisPerSecond - 1
    /\ random = RANDOM_DRAW
    /\ messageId = ""
    /\ sentDateTime = ""
    /\ nodes = << >>
    /\ doc = 0
    /\ resourceList = 0
    /\ trackIndex = 0
    /\ result = "none"
    /\ duration = None
    /\ isoDuration = None
    /\ call = None
    /\ value = None

\* the variables a step of the application leaves alone unless it names them
generatorLocals == << pc, clock, random, messageId, sentDateTime, doc,
                      resourceList, trackIndex >>
\* the response ends the request
Send(response) ==
    /\ responses' = Append(responses, response)
    /\ stage' = "done"

\* app.use(express.json()): a body that does not parse goes to the global
\* error handler (part_002:56-62)
ParseJsonBody ==
    /\ stage = "express.json"
    /\ IF request.body.json = "malformed"
       THEN Send(Response(500, "Internal Server Error"))
       ELSE stage' = "app" /\ UNCHANGED responses
    /\ UNCHANGED << request, database, queries, fetched, handlerCalls, generatorCalls,
                    releaseData, nodes, result, generatorLocals, durVars, callVars >>

\* the routes of createApp: /health, the mount of /api/ddex, the 404 handler
RouteRequest ==
    /\ stage = "app"
    /\ IF request.method = "GET" /\ request.path = "/health"
       THEN Send(Response(200, "ok"))
       ELSE IF request.path \in DOMAIN RouterPath
       THEN stage' = "apiKeyAuth" /\ UNCHANGED responses
       ELSE Send(Response(404, "Not Found"))
    /\ UNCHANGED << request, database, queries, fetched, handlerCalls, generatorCalls,
                    releaseData, nodes, result, generatorLocals, durVars, callVars >>

\* apiKeyAuth
ApiKeyAuth ==
    /\ stage = "apiKeyAuth"
    /\ IF ~Truthy(request.apiKey)
       THEN Send(Response(401, "Unauthorized"))
       ELSE IF Get(request.apiKey) \notin ConfiguredApiKeys
       THEN Send(Response(401, "Unauthorized"))
       ELSE stage' = "router" /\ UNCHANGED responses
    /\ UNCHANGED << request, database, queries, fetched, handlerCalls, generatorCalls,
                    releaseData, nodes, result, generatorLocals, durVars, callVars >>

\* the router: POST /generate, GET /health; any other request leaves the
\* router and reaches the 404 handler of the application
RouterDispatch ==
    /\ stage = "router"
    /\ IF request.method = "POST" /\ RouterPath[request.path] = "/generate"
       THEN /\ stage' = "handler"
            /\ handlerCalls' = handlerCalls + 1
            /\ UNCHANGED responses
       ELSE IF request.method = "GET" /\ RouterPath[request.path] = "/health"
       THEN Send(Response(200, "ok")) /\ UNCHANGED handlerCalls
       ELSE Send(Response(404, "Not Found")) /\ UNCHANGED handlerCalls
    /\ UNCHANGED << request, database, queries, fetched, generatorCalls,
                    releaseData, nodes, result, generatorLocals, durVars, callVars >>

\* lines 12-35 of the handler, up to the call of getReleaseWithDetails
HandlerStart ==
    /\ stage = "handler"
    /\ LET releaseId == request.body.releaseId
           releaseIdNum == parseInt(JsToString(releaseId))
       IN  IF ~JsTruthy(releaseId)
           THEN Send(Response(400, "Bad Request")) /\ UNCHANGED fetched
           ELSE IF releaseIdNum.nan \/ releaseIdNum.val <= 0
           THEN Send(Response(400, "Bad Request")) /\ UNCHANGED fetched
           ELSE /\ fetched' = Some([releaseId |-> releaseIdNum.val, release |-> None,
                                    tracks |-> << >>, trackArtists |-> << >>])
                /\ stage' = "getReleaseById"
                /\ UNCHANGED responses
    /\ UNCHANGED << request, database, queries, handlerCalls, generatorCalls,
                    releaseData, nodes, result, generatorLocals, durVars, callVars >>

\* await getReleaseById(releaseId): a failed query is thrown on to the
\* handler; without a row getReleaseWithDetails returns null
GetReleaseById ==
    /\ stage = "getReleaseById"
    /\ queries' = Append(queries, "getReleaseById")
    /\ IF database.failing = "getReleaseById"
       THEN stage' = "catch" /\ UNCHANGED << fetched, releaseData >>
       ELSE LET rows == SelectRelease(database, Get(fetched).releaseId)
            IN  IF Len(rows) = 0
                THEN /\ releaseData' = None
                     /\ stage' = "returned"
                     /\ UNCHANGED fetched
                ELSE /\ fetched' = Some([Get(fetched) EXCEPT !.release = Some(rows[1])])
                     /\ stage' = "getTracksByReleaseId"
                     /\ UNCHANGED releaseData
    /\ UNCHANGED << request, database, responses, handlerCalls, generatorCalls,
                    nodes, result, generatorLocals, durVars, callVars >>

\* await getTracksByReleaseId(releaseId): without tracks getReleaseWithDetails
\* returns the release and an empty list
GetTracksByReleaseId ==
    /\ stage = "getTracksByReleaseId"
    /\ queries' = Append(queries, "getTracksByReleaseId")
    /\ IF database.failing = "getTracksByReleaseId"
       THEN stage' = "catch" /\ UNCHANGED << fetched, releaseData >>
       ELSE \E rows \in SelectTracks(database, Get(fetched).releaseId) :
                IF Len(rows) = 0
                THEN /\ releaseData' = Some(Input(Get(Get(fetched).release), << >>))
                     /\ stage' = "returned"
                     /\ UNCHANGED fetched
                ELSE /\ fetched' = Some([Get(fetched) EXCEPT !.tracks = rows])
                     /\ stage' = "getTrackArtists"
                     /\ UNCHANGED releaseData
    /\ UNCHANGED << request, database, responses, handlerCalls, generatorCalls,
                    nodes, result, generatorLocals, durVars, callVars >>

\* await getTrackArtists(trackIds), then lines 316-326: the credits are
\* grouped and attached, and getReleaseWithDetails returns
GetTrackArtists ==
    /\ stage = "getTrackArtists"
    /\ queries' = Append(queries, "getTrackArtists")
    /\ IF database.failing = "getTrackArtists"
       THEN stage' = "catch" /\ UNCHANGED << fetched, releaseData >>
       ELSE LET tracks == Get(fetched).tracks
                trackIds == { tracks[k].id : k \in DOMAIN tracks }
            IN  \E rows \in SelectTrackArtists(database, trackIds) :
                    /\ fetched' = Some([Get(fetched) EXCEPT !.trackArtists = rows])
                    /\ releaseData' =
                           Some(Input(Get(Get(fetched).release),
                                      AttachArtists(tracks,
                                                    groupArtistsByTrack(rows, 1, << >>))))
                    /\ stage' = "returned"
    /\ UNCHANGED << request, database, responses, handlerCalls, generatorCalls,
                    nodes, result, generatorLocals, durVars, callVars >>

\* a variant that does not look at the audio URLs
FailedValidationWithoutUrl(data) ==
    LET NoIsrc(t) == IsBlank(t.isrc)
        NoDuration(t) == ~TruthyChars(t.sound_length) \/ trim(Get(t.sound_length)) = << >>
    IN  IF Len(data.tracks) = 0 THEN "tracks"
        ELSE IF IsBlank(data.release.upc) THEN "upc"
        ELSE IF Len(SelectSeq(data.tracks, NoIsrc)) > 0 THEN "isrc"
        ELSE IF ~TruthyChars(data.release.date) THEN "date"
        ELSE IF Len(SelectSeq(data.tracks, NoDuration)) > 0 THEN "sound_length"
        ELSE ""

\* the first validation of lines 38-134 that fails; "" when all pass
FailedValidation(data) ==
    LET NoIsrc(t) == IsBlank(t.isrc)
        NoDuration(t) == ~TruthyChars(t.sound_length) \/ trim(Get(t.sound_length)) = << >>
        NoUrl(t) == IsBlank(t.sound_url)
    IN  IF Len(data.tracks) = 0 THEN "tracks"
        ELSE IF IsBlank(data.release.upc) THEN "upc"
        ELSE IF Len(SelectSeq(data.tracks, NoIsrc)) > 0 THEN "isrc"
        ELSE IF ~TruthyChars(data.release.date) THEN "date"
        ELSE IF Len(SelectSeq(data.tracks, NoDuration)) > 0 THEN "sound_length"
        ELSE IF Len(SelectSeq(data.tracks, NoUrl)) > 0 THEN "sound_url"
        ELSE ""

\* generateDdexXml(releaseData) throws
GeneratorThrows(data) ==
    \/ \E k \in DOMAIN data.tracks : SoundRecordingThrows(data.release, data.tracks[k])
    \/ ReleaseListThrows(data.release)

\* lines 36-141 of the handler, after getReleaseWithDetails has returned; an
\* exception of generateDdexXml is caught by lines 142-148
HandlerResume ==
    /\ stage = "returned"
    /\ IF ~IsSome(releaseData)
       THEN /\ Send(Response(404, "Not Found"))
            /\ UNCHANGED << generatorCalls, nodes, result >>
       ELSE IF FailedValidation(Get(releaseData)) # ""
       THEN /\ Send(Response(400, "Bad Request"))
            /\ UNCHANGED << generatorCalls, nodes, result >>
       ELSE /\ generatorCalls' = generatorCalls + 1
            /\ IF GeneratorThrows(Get(releaseData))
               THEN /\ Send(Response(500, "Internal Server Error"))
                    /\ result' = "TypeError"
                    /\ UNCHANGED nodes
               ELSE /\ nodes' = Document(Get(releaseData), clock, clock, random)
                    /\ result' = "xml"
                    /\ Send(Response(200, "application/xml"))
    /\ UNCHANGED << request, database, queries, fetched, handlerCalls, releaseData,
                    generatorLocals, durVars, callVars >>

\* a variant of the catch that logs the error and sends nothing
HandlerCatchSilent ==
    /\ stage = "catch"
    /\ stage' = "done"
    /\ UNCHANGED << request, database, queries, fetched, handlerCalls, generatorCalls,
                    responses, releaseData, nodes, result, generatorLocals,
                    durVars, callVars >>

\* lines 142-148: the catch of the handler, for a rejected await
HandlerCatch ==
    /\ stage = "catch"
    /\ Send(Response(500, "Internal Server Error"))
    /\ UNCHANGED << request, database, queries, fetched, handlerCalls, generatorCalls,
                    releaseData, nodes, result, generatorLocals, durVars, callVars >>

RequestNext ==
    \/ ParseJsonBody
    \/ RouteRequest
    \/ ApiKeyAuth
    \/ RouterDispatch
    \/ HandlerStart
    \/ GetReleaseById
    \/ GetTracksByReleaseId
    \/ GetTrackArtists
    \/ HandlerResume
    \/ HandlerCatch

RequestSpec == RequestInit /\ [][RequestNext]_vars

\* the value getReleaseWithDetails returned to the handler, and its locals
Returned26 == stage = "returned"
TracksOf(db, releaseId) == {t \in db.tracks : t.release_id = releaseId}
CreditsOfTrack(credits, track) ==
    LET OfTrack(a) == a.release_track_id = track.id
    IN  SelectSeq(credits, OfTrack)

\* C26: getReleaseWithDetails returns null exactly when the release row does
\* not exist; otherwise it returns the tracks of the release in ascending
\* order of their number, and each track carries exactly the fetched credits
\* whose release_track_id is the id of the track, in the order they were
\* fetched (the empty list when there are none): every fetched credit is on
\* one track, its own.
C26_ReleaseWithDetails ==
    Returned26 =>
        LET releaseId == Get(fetched).releaseId
            credits == Get(fetched).trackArtists
        IN  /\ (releaseData = None) <=> (Len(SelectRelease(database, releaseId)) = 0)
            /\ IsSome(releaseData) =>
                   LET tracks == Get(releaseData).tracks
                   IN  /\ Get(releaseData).release = Get(database.release)
                       /\ Len(tracks) = Cardinality(TracksOf(database, releaseId))
                       /\ { [tracks[k] EXCEPT !.artists = None] : k \in DOMAIN tracks }
                              = TracksOf(database, releaseId)
                       /\ \A i, j \in DOMAIN tracks :
                              i < j => tracks[i].number <= tracks[j].number
                       /\ \A k \in DOMAIN tracks :
                              tracks[k].artists = Some(CreditsOfTrack(credits, tracks[k]))
                       /\ \A i \in DOMAIN credits :
                              Cardinality({ k \in DOMAIN tracks :
                                              \E j \in DOMAIN Get(tracks[k].artists) :
                                                  Get(tracks[k].artists)[j] = credits[i] }) = 1
                       /\ { credits[i] : i \in DOMAIN credits }
                              = { a \in database.credits :
                                    \E k \in DOMAIN tracks : a.release_track_id = tracks[k].id }

\* the base database: track 2 (number 1) comes first with its two credits in
\* the order of their ids, track 1 (number 2) has one, and the credit of
\* track 9 is not fetched
C26_TwoTracksThreeCredits ==
    /\ Returned26
    /\ IsSome(releaseData)
    /\ database = BaseDatabase
    /\ Len(Get(releaseData).tracks) = 2
    /\ Get(releaseData).tracks[1].id = 2
    /\ Len(Get(Get(releaseData).tracks[1].artists)) = 2
    /\ Get(Get(releaseData).tracks[1].artists)[1].id = 1
    /\ Len(Get(Get(releaseData).tracks[2].artists)) = 1

\* the request is POST /api/ddex/generate; GET /api/ddex/health
IsGenerate == request.method = "POST" /\ request.path = "/api/ddex/generate"
IsRouterHealth == request.method = "GET" /\ request.path = "/api/ddex/health"
\* the x-api-key header of the request is one of the configured keys
HasConfiguredKey == IsSome(request.apiKey) /\ Get(request.apiKey) \in ConfiguredApiKeys
\* the request has been answered
Answered == stage = "done"

\* C22: a POST /api/ddex/generate enters the route handler only with an
\* x-api-key header that is one of the configured keys; without a key, or
\* with a key that is not configured, the request is answered 401 Unauthorized
\* and neither the database nor the generator is invoked.
C22_GenerateNeedsApiKey ==
    IsGenerate =>
        /\ handlerCalls > 0 => HasConfiguredKey
        /\ (Answered /\ ~HasConfiguredKey) =>
               /\ responses = << Response(401, "Unauthorized") >>
               /\ queries = << >>
               /\ generatorCalls = 0

\* what holds of it: without a configured key the handler, the database and
\* the generator are never reached, and the answer is 401 when the body parses
C22_HandlerBehindApiKey ==
    (IsGenerate /\ ~HasConfiguredKey) =>
        /\ handlerCalls = 0
        /\ queries = << >>
        /\ generatorCalls = 0
        /\ (Answered /\ request.body.json = "object") =>
               responses = << Response(401, "Unauthorized") >>

\* a POST /api/ddex/generate without a key whose body is not JSON is answered
\* 500 by the error handler of the application, before apiKeyAuth runs
C22_MalformedBodyWithoutKey ==
    /\ IsGenerate
    /\ request.apiKey = None
    /\ request.body = MalformedJson
    /\ Answered
    /\ responses = << Response(500, "Internal Server Error") >>

\* C23: GET /api/ddex/health needs no API key: a request without an x-api-key
\* header (and a body that parses, a GET carrying none) is answered 200 with
\* status "ok".
C23_RouterHealthIsOpen ==
    (IsRouterHealth /\ request.apiKey = None /\ request.body.json = "object" /\ Answered)
        => responses = << Response(200, "ok") >>

\* what holds: GET /api/ddex/health is answered 200 exactly with a configured
\* key, and GET /health of the application with or without one
C23_HealthRoutes ==
    (Answered /\ request.method = "GET" /\ request.body.json = "object") =>
        /\ request.path = "/api/ddex/health" =>
               (responses = << Response(200, "ok") >> <=> HasConfiguredKey)
        /\ request.path = "/health" => responses = << Response(200, "ok") >>

\* GET /api/ddex/health without a key is answered 401 by apiKeyAuth
C23_RouterHealthWithoutKey ==
    /\ IsRouterHealth
    /\ request.apiKey = None
    /\ request.body.json = "object"
    /\ Answered
    /\ responses = << Response(401, "Unauthorized") >>

\* what the request and the database are, in the words of the validations
ReleaseIdParsed == parseInt(JsToString(request.body.releaseId))
ReleaseIdIsPositive ==
    /\ request.body.releaseId # JsUndefined
    /\ ~ReleaseIdParsed.nan
    /\ ReleaseIdParsed.val > 0
ReleaseExists ==
    /\ ReleaseIdIsPositive
    /\ IsSome(database.release)
    /\ Get(database.release).id = ReleaseIdParsed.val
TracksOfRelease == TracksOf(database, ReleaseIdParsed.val)
NonBlank(text) == IsSome(text) /\ Get(text) \notin {"", " ", "   "}
NonBlankChars(text) ==
    IsSome(text) /\ \E k \in DOMAIN Get(text) : ~IsWhiteSpace(Get(text)[k])
ReleaseIsComplete ==
    /\ ReleaseExists
    /\ TracksOfRelease # {}
    /\ NonBlank(Get(database.release).upc)
    /\ \A t \in TracksOfRelease : NonBlank(t.isrc)
    /\ IsSome(Get(database.release).date) /\ Get(Get(database.release).date) # << >>
    /\ \A t \in TracksOfRelease : NonBlankChars(t.sound_length)
    /\ \A t \in TracksOfRelease : NonBlank(t.sound_url)
\* a query that getReleaseWithDetails sends for this request fails
FetchingRaises ==
    \/ database.failing = "getReleaseById"
    \/ ReleaseExists /\ database.failing = "getTracksByReleaseId"
    \/ ReleaseExists /\ TracksOfRelease # {} /\ database.failing = "getTrackArtists"
Status == responses[1].status

\* C24: POST /api/ddex/generate answers 200 with the XML only if the releaseId
\* is present and parses to a positive number, the release exists, has a
\* track, a non-blank UPC and a date, and every track has a non-blank ISRC,
\* duration and audio URL. In every other case generateDdexXml is never
\* called, and the handler answers 400 when a validation fails, 404 when the
\* release does not exist, 500 when fetching raises.
C24_GenerateAnswers ==
    IsGenerate =>
        /\ ~ReleaseIsComplete => generatorCalls = 0
        /\ generatorCalls > 0 => handlerCalls = 1
        /\ (Answered /\ handlerCalls > 0) =>
               /\ Len(responses) = 1
               /\ Status = 200 => (ReleaseIsComplete /\ ~FetchingRaises)
               /\ Status = 200 => generatorCalls = 1 /\ result = "xml" /\ Len(nodes) > 0
               /\ (ReleaseIsComplete /\ ~FetchingRaises) =>
                      \/ Status = 200
                      \/ Status = 500 /\ generatorCalls = 1 /\ result = "TypeError"
               /\ (~ReleaseIsComplete \/ FetchingRaises) =>
                      /\ Status \in {400, 404, 500}
                      /\ Status = 500 <=> (ReleaseIdIsPositive /\ FetchingRaises)
                      /\ Status = 404 <=> (ReleaseIdIsPositive /\ ~ReleaseExists
                                              /\ ~FetchingRaises)
                      /\ Status = 400 <=> \/ ~ReleaseIdIsPositive
                                          \/ ReleaseExists /\ ~FetchingRaises
        /\ (Answered /\ handlerCalls = 0) => Status # 200

\* a complete release of two tracks is answered 200 after one call of the
\* generator
C24_CompleteReleaseAnswered200 ==
    /\ IsGenerate
    /\ Answered
    /\ ReleaseIsComplete
    /\ Cardinality(TracksOfRelease) = 2
    /\ responses = << Response(200, "application/xml") >>
    /\ generatorCalls = 1

\* Express runs the next middleware when the previous one calls next(), and
\* every query of the pool settles, resolved or rejected: a request that is
\* not answered yet takes its next step
\* HandlerResume is enabled exactly in the stage "returned", which it leaves:
\* its weak fairness, with that enabling condition written out
HandlerResumeFair ==
    []<>(stage # "returned") \/ []<><<HandlerResume>>_vars
RequestLiveSpec ==
    /\ RequestSpec
    /\ WF_vars(ParseJsonBody)
    /\ WF_vars(RouteRequest)
    /\ WF_vars(ApiKeyAuth)
    /\ WF_vars(RouterDispatch)
    /\ WF_vars(HandlerStart)
    /\ WF_vars(GetReleaseById)
    /\ WF_vars(GetTracksByReleaseId)
    /\ WF_vars(GetTrackArtists)
    /\ WF_vars(HandlerCatch)
    /\ HandlerResumeFair

\* the request entered the route handler of POST /generate
Handled == handlerCalls > 0

\* C29: a POST /api/ddex/generate that reaches the handler gets exactly one
\* response on every path, a failed validation, a release that is not found,
\* success, an exception of the repository or of the generator: it is
\* answered, and no second response is sent.
C29_ExactlyOneResponse ==
    /\ [](Handled => /\ IsGenerate
                     /\ handlerCalls = 1
                     /\ Len(responses) = (IF Answered THEN 1 ELSE 0))
    /\ (Handled ~> (Answered /\ Len(responses) = 1))

\* the path of an exception: the last query of getReleaseWithDetails is
\* rejected, and the catch of the handler answers 500, once
C29_RejectedQueryAnswered ==
    /\ Handled
    /\ Answered
    /\ database.failing = "getTrackArtists"
    /\ queries = << "getReleaseById", "getTracksByReleaseId", "getTrackArtists" >>
    /\ responses = << Response(500, "Internal Server Error") >>

====
